---- MODULE Spec2Model ----
(***************************************************************************)
(* Dialogue orchestration core of the Furhat "visible thinking" robot:     *)
(* FurhatBridge (connection/furhat_bridge.py), Orchestrator                *)
(* (plan/orchestrator.py), BehaviorGenerator (plan/behavior_generator.py), *)
(* ControllerModel (plan/controller.py), ChatGPTSentenceStreamer           *)
(* (utils/streamer.py) and TrialMemory (utils/trial_memory.py).            *)
(*                                                                         *)
(* Text is a sequence of one-character strings, so that strip(), lower(),  *)
(* the regular expressions and the similarity ratio are computed as the    *)
(* code computes them.  The asyncio event loop is single-threaded: one     *)
(* action is one task step, from a resumption to the next await.  The      *)
(* robot reports the start and the end of every speech it is asked for.    *)
(* The dialogue history is not followed.                                   *)
(***************************************************************************)
EXTENDS Integers, Sequences, FiniteSets, TLC

(***************************************************************************)
(* Bounds of the model.                                                    *)
(***************************************************************************)
\* runs (orchestrator tasks) the bridge may create in one session
MaxRuns == 2
\* the clauses a stream delivers in a session of several questions
SessionClauses == 1
\* clauses the answer stream may deliver before it ends or fails
MaxAnswerClauses == 2
\* clauses the thinking stream may deliver before it ends or fails
MaxThinkingClauses == 2
\* fragments _token_stream may yield in a stream() call taken on its own
MaxFragments == 3
\* records a TrialMemory taken on its own may hold
MaxRecords == 2
\* entries of a store document that is loaded and then only read
MaxEntries == 2

(***************************************************************************)
(* Program constants.  Durations are in units of THINKING_PAUSE_SECONDS    *)
(* (0.5 s): 8.0 s = 16 units, 10.0 s = 20 units.                           *)
(***************************************************************************)
MAX_THINKING_CUES == 12
THINKING_DURATION_SECONDS == 20
THINKING_PAUSE_SECONDS == 1
MIN_THINKING_DURATION_SECONDS == 16
DIRECT_RESPONSE_DELAY_SECONDS == 0
PERSIST_TRIALS == FALSE
\* TrialMemory.match_threshold = 0.6, as the fraction ThresholdNum / ThresholdDen
ThresholdNum == 6
ThresholdDen == 10
\* _estimate_confidence_from_words thresholds
LowWordLimit == 25
MediumWordLimit == 60

\* an absent dict key, and Python's None where no JSON value is meant; a
\* one-element tuple whose element is no character
None == <<"None">>
\* JSON true and false
JTrue == <<"true">>
JFalse == <<"false">>
\* JSON null as the value of a key that is present
JNull == <<"null">>
\* the empty list, told apart from the empty text
JEmptyList == <<"[]">>

(***************************************************************************)
(* Characters and the str methods the code uses.                           *)
(***************************************************************************)
Digits == {"0", "1", "2", "3", "4", "5", "6", "7", "8", "9"}
LowerLetters ==
    {"a", "b", "c", "d", "e", "f", "g", "h", "i", "j", "k", "l", "m",
     "n", "o", "p", "q", "r", "s", "t", "u", "v", "w", "x", "y", "z"}
UpperLetters ==
    {"A", "B", "C", "D", "E", "F", "G", "H", "I", "J", "K", "L", "M",
     "N", "O", "P", "Q", "R", "S", "T", "U", "V", "W", "X", "Y", "Z"}
\* str.isspace(): what strip() removes and \s matches
Whitespace == {" ", "\t", "\n", "\r"}
\* \w: letters, digits, underscore ("u00E2" is the letter U+00E2)
WordChars == LowerLetters \cup UpperLetters \cup Digits \cup {"_", "u00E2"}

\* str.lower() on one character
LowerChar(c) ==
    CASE c = "A" -> "a" [] c = "B" -> "b" [] c = "C" -> "c" [] c = "D" -> "d"
      [] c = "E" -> "e" [] c = "F" -> "f" [] c = "G" -> "g" [] c = "H" -> "h"
      [] c = "I" -> "i" [] c = "J" -> "j" [] c = "K" -> "k" [] c = "L" -> "l"
      [] c = "M" -> "m" [] c = "N" -> "n" [] c = "O" -> "o" [] c = "P" -> "p"
      [] c = "Q" -> "q" [] c = "R" -> "r" [] c = "S" -> "s" [] c = "T" -> "t"
      [] c = "U" -> "u" [] c = "V" -> "v" [] c = "W" -> "w" [] c = "X" -> "x"
      [] c = "Y" -> "y" [] c = "Z" -> "z" [] OTHER -> c

\* str.lower()
Lower(s) == [i \in 1..Len(s) |-> LowerChar(s[i])]

\* str.strip(chars) on a text that has been evaluated
StripText(text, chars) ==
    LET keep == {i \in 1..Len(text) : text[i] \notin chars}
    IN  IF keep = {} THEN <<>>
        ELSE LET lo == CHOOSE i \in keep : \A j \in keep : i <= j
                 hi == CHOOSE i \in keep : \A j \in keep : j <= i
             IN  SubSeq(text, lo, hi)

\* str.strip(chars): drop leading and trailing characters of the set
StripChars(s, chars) ==
    CHOOSE stripped \in {StripText(text, chars) : text \in {s}} : TRUE

\* str.strip()
Strip(s) == StripChars(s, Whitespace)

RECURSIVE Flatten(_)
\* "".join(parts)
Flatten(parts) ==
    IF parts = <<>> THEN <<>> ELSE Head(parts) \o Flatten(Tail(parts))

RECURSIVE JoinWith(_, _)
\* sep.join(parts)
JoinWith(parts, sep) ==
    IF parts = <<>> THEN <<>>
    ELSE IF Len(parts) = 1 THEN Head(parts)
    ELSE Head(parts) \o sep \o JoinWith(Tail(parts), sep)

\* re.sub(r"[^\w]+", " ", s): every maximal run of non-word characters
\* becomes one space
SubNonWordRuns(s) ==
    Flatten([i \in 1..Len(s) |->
        IF s[i] \notin WordChars
        THEN IF i > 1 /\ s[i - 1] \notin WordChars THEN <<>> ELSE <<" ">>
        ELSE <<s[i]>>])

\* re.sub(r"\s+", " ", s): every maximal run of whitespace becomes one space
SubSpaceRuns(s) ==
    Flatten([i \in 1..Len(s) |->
        IF s[i] \in Whitespace
        THEN IF i > 1 /\ s[i - 1] \in Whitespace THEN <<>> ELSE <<" ">>
        ELSE <<s[i]>>])

\* len(s.split()): the number of whitespace-separated tokens
WordCount(s) ==
    Cardinality({i \in 1..Len(s) :
        s[i] \notin Whitespace /\ (i = 1 \/ s[i - 1] \in Whitespace)})

(***************************************************************************)
(* JSON values.  A text is a sequence of characters, a list a sequence of  *)
(* values, a dict a record over its keys (a key whose value is None is     *)
(* absent, as is a key outside the record's domain); null, true and false  *)
(* are JNull, JTrue and JFalse.  "" is <<>>, and so is [] where only a     *)
(* list is meant; where a text may stand as well, [] is JEmptyList.        *)
(***************************************************************************)
\* string.punctuation without the underscore and the backquote
Punctuation ==
    {"!", "\"", "#", "$", "%", "&", "'", "(", ")", "*", "+", ",", "-", ".", "/",
     ":", ";", "<", "=", ">", "?", "@", "[", "\\", "]", "^", "{", "|", "}", "~"}

\* the characters a text is made of
Characters ==
    WordChars \cup Whitespace \cup Punctuation \cup {"u20AC", "u00A6"}

\* the printed forms of the characters: values of different types are told
\* apart by their printed forms, equality being defined within one type only
CharNames == {ToString(c) : c \in Characters}

\* type(value): "str", "list", "dict", "null", "bool", "absent", "nil" for
\* JEmptyList, or "empty" for <<>>
JsonKind(value) ==
    IF DOMAIN value = {} THEN "empty"
    ELSE IF \A key \in DOMAIN value : ToString(key) # ToString(1) THEN "dict"
    ELSE LET head == ToString(value[1])
         IN  IF Len(value) = 1 /\ head = ToString("None") THEN "absent"
             ELSE IF Len(value) = 1 /\ head = ToString("null") THEN "null"
             ELSE IF Len(value) = 1 /\ head = ToString("[]") THEN "nil"
             ELSE IF Len(value) = 1 /\ head \in {ToString("true"), ToString("false")}
                  THEN "bool"
             ELSE IF head \in CharNames THEN "str"
             ELSE "list"

\* isinstance(value, str), isinstance(value, list), isinstance(value, dict)
IsStr(value) == JsonKind(value) \in {"str", "empty"}
IsList(value) == JsonKind(value) \in {"list", "empty", "nil"}
IsDict(value) == JsonKind(value) = "dict"
Absent(value) == JsonKind(value) = "absent"

\* bool(value): None, false, "", [] and {} are falsy; a dict is {} when all
\* its keys are absent
Truthy(value) ==
    CASE JsonKind(value) \in {"empty", "absent", "null", "nil"} -> FALSE
      [] JsonKind(value) = "bool" -> ToString(value[1]) = ToString("true")
      [] JsonKind(value) = "dict" -> \E key \in DOMAIN value : ~Absent(value[key])
      [] OTHER -> TRUE

\* dict.get(key) and dict.get(key, default)
Get(dict, key) ==
    IF key \in DOMAIN dict /\ ~Absent(dict[key]) THEN dict[key] ELSE None
GetOr(dict, key, default) ==
    IF key \in DOMAIN dict /\ ~Absent(dict[key]) THEN dict[key] ELSE default

\* key in dict
Has(dict, key) == key \in DOMAIN dict /\ ~Absent(dict[key])

\* repr() of a character within single quotes
ReprChar(c) ==
    CASE c = "\\" -> <<"\\", "\\">>
      [] c = "'" -> <<"\\", "'">>
      [] c = "\n" -> <<"\\", "n">>
      [] c = "\t" -> <<"\\", "t">>
      [] c = "\r" -> <<"\\", "r">>
      [] OTHER -> <<c>>

RECURSIVE repr(_)
\* repr(value) of None, a bool, a text or a list of these (a text that holds
\* a single quote and no double quote is written within double quotes)
repr(value) ==
    CASE JsonKind(value) \in {"null", "absent"} -> <<"N", "o", "n", "e">>
      [] JsonKind(value) = "bool" ->
            IF Truthy(value) THEN <<"T", "r", "u", "e">>
            ELSE <<"F", "a", "l", "s", "e">>
      [] JsonKind(value) = "empty" -> <<"'", "'">>
      [] JsonKind(value) = "nil" -> <<"[", "]">>
      [] JsonKind(value) = "str" ->
            IF (\E i \in 1..Len(value) : value[i] = "'")
               /\ ~(\E i \in 1..Len(value) : value[i] = "\"")
            THEN <<"\"">>
                 \o Flatten([i \in 1..Len(value) |->
                        IF value[i] = "'" THEN <<"'">> ELSE ReprChar(value[i])])
                 \o <<"\"">>
            ELSE <<"'">> \o Flatten([i \in 1..Len(value) |-> ReprChar(value[i])])
                 \o <<"'">>
      [] JsonKind(value) = "list" ->
            <<"[">>
            \o JoinWith([i \in 1..Len(value) |-> repr(value[i])], <<",", " ">>)
            \o <<"]">>

\* str(value): a text is itself, anything else is its repr (<<>> is taken
\* for the text "")
str(value) == IF IsStr(value) THEN value ELSE repr(value)

(***************************************************************************)
(* utils/trial_memory.py                                                   *)
(*                                                                         *)
(* A dict whose order matters is a sequence in insertion order: records is *)
(* a sequence of records with distinct questions, _norm_index a sequence   *)
(* of <<normalized key, question>> pairs with distinct keys.  A store      *)
(* document is [kind, items]: kind "list" (items are entries), "dict"      *)
(* (items are <<key, value>> pairs), "corrupt" or "missing".  The value    *)
(* under a key of a "dict" document is an entry, a [kind, items] of kind   *)
(* "list" or "dict" again, or any other JSON value.  An entry is a dict:   *)
(* a record over "question", "answer", "thinking_cues", "decision",        *)
(* "final_confidence" and the legacy keys "need_thinking", "confidence",   *)
(* "thinking_behavior_plan"; a decision is a dict over the keys of         *)
(* EmptyDecision.  A dict under a container key that is written as such a  *)
(* record is iterated key by key, in the order of RecordKeys.              *)
(***************************************************************************)
\* the empty decision dict {}
EmptyDecision ==
    [need_thinking |-> None, confidence |-> None, thinking_notes |-> None,
     thinking_behavior_plan |-> None, reasoning_hint |-> None, answer |-> None]

_normalize_text(text) == Strip(SubSpaceRuns(SubNonWordRuns(Lower(text))))

\* the thinking_cues of _normalize_record: entry.get("thinking_cues") or [],
\* and of a list [str(c).strip() for c in cues if str(c).strip()]
StripCues(cues) ==
    IF ~Truthy(cues) \/ ~IsList(cues) THEN <<>>
    ELSE LET stripped == [i \in 1..Len(cues) |-> Strip(str(cues[i]))]
         IN  SelectSeq(stripped, LAMBDA c : c # <<>>)

\* what stands for None where a record is expected
NoRecord ==
    [question |-> None, answer |-> None, thinking_cues |-> None,
     decision |-> EmptyDecision, final_confidence |-> None]

\* the keys a decision takes over from a legacy entry
LegacyKeys == {"need_thinking", "confidence", "thinking_behavior_plan"}

\* the decision of _normalize_record: the entry's decision when it is a
\* dict, and for an empty one the hints at the top level of the entry
EntryDecision(entry) ==
    LET given == IF "decision" \in DOMAIN entry /\ JsonKind(entry.decision) = "dict"
                 THEN entry.decision
                 ELSE EmptyDecision
    IN  IF Truthy(given) THEN given
        ELSE [key \in DOMAIN EmptyDecision |->
                 IF key \in LegacyKeys /\ Has(entry, key) THEN entry[key] ELSE None]

\* TrialMemory._normalize_record: NoRecord when the entry is no dict or has
\* no question
_normalize_record(entry) ==
    IF JsonKind(entry) # "dict" THEN NoRecord
    ELSE
    LET question == Strip(str(GetOr(entry, "question", <<>>)))
        answer == Strip(str(GetOr(entry, "answer", <<>>)))
        thinking_cues == StripCues(Get(entry, "thinking_cues"))
        decision == EntryDecision(entry)
        given == Strip(str(GetOr(entry, "final_confidence", <<>>)))
        raw_conf == Get(decision, "confidence")
        final_confidence ==
            IF given # <<>> THEN given
            ELSE IF IsStr(raw_conf) THEN Strip(raw_conf)
            ELSE <<>>
    IN  IF question = <<>> THEN NoRecord
        ELSE [question |-> question, answer |-> answer,
              thinking_cues |-> thinking_cues, decision |-> decision,
              final_confidence |-> final_confidence]

\* d[key] = value on a dict kept as a sequence of records with a question
DictPut(records, rec) ==
    IF \E i \in 1..Len(records) : records[i].question = rec.question
    THEN [i \in 1..Len(records) |->
             IF records[i].question = rec.question THEN rec ELSE records[i]]
    ELSE Append(records, rec)

\* d.get(key): the record stored under the question, or None
DictGet(records, question) ==
    IF \E i \in 1..Len(records) : records[i].question = question
    THEN records[CHOOSE i \in 1..Len(records) : records[i].question = question]
    ELSE NoRecord

RECURSIVE ReindexFrom(_, _, _)
ReindexFrom(records, i, index) ==
    IF i > Len(records) THEN index
    ELSE LET question == records[i].question
             norm == _normalize_text(question)
             next ==
                 IF norm = <<>> THEN index
                 ELSE IF \E k \in 1..Len(index) : index[k][1] = norm
                 THEN [k \in 1..Len(index) |->
                          IF index[k][1] = norm THEN <<norm, question>> ELSE index[k]]
                 ELSE Append(index, <<norm, question>>)
         IN  ReindexFrom(records, i + 1, next)

\* TrialMemory._reindex: the _norm_index built from the records
_reindex(records) == ReindexFrom(records, 1, <<>>)

\* dict.get(key) on the items of a "dict" document
ItemsGet(items, key) ==
    IF \E i \in 1..Len(items) : items[i][1] = key
    THEN items[CHOOSE i \in 1..Len(items) :
                   items[i][1] = key /\ \A j \in (i + 1)..Len(items) : items[j][1] # key][2]
    ELSE None

\* a [kind, items] under a key of a document
IsItems(value) == JsonKind(value) = "dict" /\ "kind" \in DOMAIN value

\* bool(value) of what a key of a document holds
HoldsSomething(value) ==
    IF IsItems(value) THEN value.items # <<>> ELSE Truthy(value)

T_records == <<"r", "e", "c", "o", "r", "d", "s">>
T_trials == <<"t", "r", "i", "a", "l", "s">>

\* the keys of a dict that is written as a record, in the order the dict
\* has them (a dict with its keys in another order is written as [kind,
\* items])
RecordKeys ==
    <<"question", "answer", "thinking_cues", "need_thinking", "confidence",
      "thinking_notes", "thinking_behavior_plan", "reasoning_hint", "decision",
      "final_confidence">>

\* the key of a record as a text
KeyText(key) ==
    CASE key = "question" -> <<"q", "u", "e", "s", "t", "i", "o", "n">>
      [] key = "answer" -> <<"a", "n", "s", "w", "e", "r">>
      [] key = "thinking_cues" ->
            <<"t", "h", "i", "n", "k", "i", "n", "g", "_", "c", "u", "e", "s">>
      [] key = "need_thinking" ->
            <<"n", "e", "e", "d", "_", "t", "h", "i", "n", "k", "i", "n", "g">>
      [] key = "confidence" -> <<"c", "o", "n", "f", "i", "d", "e", "n", "c", "e">>
      [] key = "thinking_notes" ->
            <<"t", "h", "i", "n", "k", "i", "n", "g", "_", "n", "o", "t", "e", "s">>
      [] key = "thinking_behavior_plan" ->
            <<"t", "h", "i", "n", "k", "i", "n", "g", "_", "b", "e", "h", "a", "v", "i",
              "o", "r", "_", "p", "l", "a", "n">>
      [] key = "reasoning_hint" ->
            <<"r", "e", "a", "s", "o", "n", "i", "n", "g", "_", "h", "i", "n", "t">>
      [] key = "decision" -> <<"d", "e", "c", "i", "s", "i", "o", "n">>
      [] key = "final_confidence" ->
            <<"f", "i", "n", "a", "l", "_", "c", "o", "n", "f", "i", "d", "e", "n", "c", "e">>

\* dict.items() of a dict written as a record
RecordItems(dict) ==
    LET present == SelectSeq(RecordKeys, LAMBDA key : Has(dict, key))
    IN  [i \in 1..Len(present) |-> <<KeyText(present[i]), dict[present[i]]>>]

\* a [kind, items] read as an entry: a dict by the keys an entry has, a
\* list as the list it is
AsEntry(value) ==
    IF ~IsItems(value) THEN value
    ELSE IF value.kind # "dict" THEN value.items
    ELSE [key \in DOMAIN NoRecord \cup LegacyKeys |->
             ItemsGet(value.items, KeyText(key))]

\* data.get("records") or data.get("trials") or data, as [kind, items]: a
\* dict gives its items, a list its entries, anything else nothing
Container(doc) ==
    LET held == IF HoldsSomething(ItemsGet(doc.items, T_records))
                THEN ItemsGet(doc.items, T_records)
                ELSE IF HoldsSomething(ItemsGet(doc.items, T_trials))
                THEN ItemsGet(doc.items, T_trials)
                ELSE doc
    IN  IF doc.kind # "dict" THEN doc
        ELSE IF IsItems(held) THEN held
        ELSE IF JsonKind(held) = "list" THEN [kind |-> "list", items |-> held]
        ELSE IF JsonKind(held) = "dict"
        THEN [kind |-> "dict", items |-> RecordItems(held)]
        ELSE [kind |-> "other", items |-> <<>>]

\* the entry upsert() normalizes: the fallback question fills in for a
\* missing one
WithFallback(entry, fallback_question) ==
    IF fallback_question # <<>> /\ JsonKind(entry) = "dict" /\ ~Has(entry, "question")
    THEN [key \in DOMAIN entry \cup {"question"} |->
             IF key = "question" THEN fallback_question ELSE entry[key]]
    ELSE entry

RECURSIVE UpsertFrom(_, _, _)
\* the upsert() closure of _load applied to items[i..] of the container
UpsertFrom(doc, i, acc) ==
    IF i > Len(doc.items) THEN acc
    ELSE LET item == doc.items[i]
             entry == IF doc.kind = "dict"
                      THEN WithFallback(AsEntry(item[2]), item[1])
                      ELSE AsEntry(item)
             Upsert(normalized) ==
                 IF normalized = NoRecord THEN UpsertFrom(doc, i + 1, acc)
                 ELSE UpsertFrom(doc, i + 1,
                          [records |-> DictPut(acc.records, normalized),
                           ordered |-> Append(acc.ordered, normalized.question)])
         IN  Upsert(_normalize_record(entry))

\* TrialMemory.__init__ and _load: the instance loaded from a document
_load(doc) ==
    LET Loaded(loaded) ==
            [records |-> loaded.records,
             _ordered_questions |-> loaded.ordered,
             _norm_index |-> _reindex(loaded.records)]
    IN  Loaded(IF doc.kind \in {"list", "dict"}
               THEN UpsertFrom(Container(doc), 1, [records |-> <<>>, ordered |-> <<>>])
               ELSE [records |-> <<>>, ordered |-> <<>>])

RECURSIVE RunLength(_, _, _, _, _, _)
\* the length of the common run of a[i..ahi] and b[j..bhi] that starts at (i, j)
RunLength(a, b, i, j, ahi, bhi) ==
    IF i > ahi \/ j > bhi \/ a[i] # b[j] THEN 0
    ELSE 1 + RunLength(a, b, i + 1, j + 1, ahi, bhi)

\* difflib.SequenceMatcher.find_longest_match without junk (the inputs are
\* shorter than the 200 elements that switch the autojunk heuristic on): the
\* longest common block of a[alo..ahi] and b[blo..bhi], the one that starts
\* earliest in a and, of those, earliest in b
find_longest_match(a, b, alo, ahi, blo, bhi) ==
    LET starts == (alo..ahi) \X (blo..bhi)
        size(p) == RunLength(a, b, p[1], p[2], ahi, bhi)
        best == CHOOSE p \in starts :
                    \A q \in starts :
                        \/ size(q) < size(p)
                        \/ /\ size(q) = size(p)
                           /\ \/ p[1] < q[1]
                              \/ p[1] = q[1] /\ p[2] <= q[2]
    IN  <<best[1], best[2], size(best)>>

RECURSIVE MatchedChars(_, _, _, _, _, _)
\* the sum of the sizes of get_matching_blocks() within a[alo..ahi], b[blo..bhi]
MatchedChars(a, b, alo, ahi, blo, bhi) ==
    IF alo > ahi \/ blo > bhi THEN 0
    ELSE LET m == find_longest_match(a, b, alo, ahi, blo, bhi)
         IN  IF m[3] = 0 THEN 0
             ELSE m[3]
                  + MatchedChars(a, b, alo, m[1] - 1, blo, m[2] - 1)
                  + MatchedChars(a, b, m[1] + m[3], ahi, m[2] + m[3], bhi)

\* SequenceMatcher(None, a, b).ratio() as the fraction <<2 * M, T>>
\* (1.0 when both are empty)
ratio(a, b) ==
    IF Len(a) + Len(b) = 0 THEN <<1, 1>>
    ELSE <<2 * MatchedChars(a, b, 1, Len(a), 1, Len(b)), Len(a) + Len(b)>>

\* x > y on fractions with positive denominators
FracGreater(x, y) == x[1] * y[2] > y[1] * x[2]

RECURSIVE FuzzyFrom(_, _, _, _, _)
FuzzyFrom(index, norm_question, i, best_question, best_score) ==
    IF i > Len(index) THEN <<best_question, best_score>>
    ELSE LET score == ratio(norm_question, index[i][1])
         IN  IF FracGreater(score, best_score)
             THEN FuzzyFrom(index, norm_question, i + 1, index[i][2], score)
             ELSE FuzzyFrom(index, norm_question, i + 1, best_question, best_score)

\* a fuzzy match that accepts only a similarity above the threshold
_best_fuzzy_match_above(tm, norm_question) ==
    LET best == FuzzyFrom(tm._norm_index, norm_question, 1, None, <<0, 1>>)
    IN  IF best[1] = None THEN None
        ELSE IF best[2][1] * ThresholdDen > ThresholdNum * best[2][2]
             THEN best[1]
             ELSE None

\* TrialMemory._best_fuzzy_match: the matched question, or None
_best_fuzzy_match(tm, norm_question) ==
    LET Accepted(best) ==
            IF best[1] = None THEN None
            ELSE IF best[2][1] * ThresholdDen >= ThresholdNum * best[2][2]
                 THEN best[1]
                 ELSE None
    IN  Accepted(FuzzyFrom(tm._norm_index, norm_question, 1, None, <<0, 1>>))

DigitValue(c) ==
    CASE c = "0" -> 0 [] c = "1" -> 1 [] c = "2" -> 2 [] c = "3" -> 3
      [] c = "4" -> 4 [] c = "5" -> 5 [] c = "6" -> 6 [] c = "7" -> 7
      [] c = "8" -> 8 [] c = "9" -> 9

RECURSIVE IntOfDigits(_, _)
\* int(digits), acc being the value of the digits read so far
IntOfDigits(digits, acc) ==
    IF digits = <<>> THEN acc
    ELSE IntOfDigits(Tail(digits), 10 * acc + DigitValue(Head(digits)))

\* the first index >= from whose character is outside the set (Len + 1 if none)
SkipWhile(s, from, chars) ==
    IF \E i \in from..Len(s) : s[i] \notin chars
    THEN CHOOSE i \in from..Len(s) :
             s[i] \notin chars /\ \A j \in from..(i - 1) : s[j] \in chars
    ELSE Len(s) + 1

StartsWith(s, prefix) ==
    Len(s) >= Len(prefix) /\ SubSeq(s, 1, Len(prefix)) = prefix

\* re.match(r"q(uestion)?\s*0*([0-9]+)", lowered): int(group 2), or -1 when
\* there is no match.  The match is anchored at the start only; 0* gives
\* back a zero when the digit run is all zeros.
AliasIndex(lowered) ==
    LET afterQ == IF StartsWith(lowered, <<"q", "u", "e", "s", "t", "i", "o", "n">>)
                  THEN 9 ELSE 2
        digitsFrom == SkipWhile(lowered, afterQ, Whitespace)
        digitsEnd == SkipWhile(lowered, digitsFrom, Digits)
    IN  IF ~StartsWith(lowered, <<"q">>) \/ digitsEnd = digitsFrom THEN -1
        ELSE IntOfDigits(SubSeq(lowered, digitsFrom, digitsEnd - 1), 0)

\* TrialMemory._resolve_index_alias: the aliased question, or None
_resolve_index_alias(tm, text) ==
    LET idx == AliasIndex(Strip(Lower(text)))
    IN  IF idx <= 0 \/ idx > Len(tm._ordered_questions) THEN None
        ELSE tm._ordered_questions[idx - 1 + 1]

\* dict.get on _norm_index
NormIndexGet(index, norm) ==
    IF \E i \in 1..Len(index) : index[i][1] = norm
    THEN index[CHOOSE i \in 1..Len(index) : index[i][1] = norm][2]
    ELSE None

\* a lookup that tries the exact normalized match before the alias
get_exact_first(tm, question) ==
    LET key == Strip(question)
        alias_question == _resolve_index_alias(tm, key)
        norm == _normalize_text(key)
        original == NormIndexGet(tm._norm_index, norm)
        matched_question == _best_fuzzy_match(tm, norm)
    IN  IF key = <<>> THEN NoRecord
        ELSE IF original # None THEN DictGet(tm.records, original)
        ELSE IF alias_question # None THEN DictGet(tm.records, alias_question)
        ELSE IF matched_question # None THEN DictGet(tm.records, matched_question)
        ELSE NoRecord

\* TrialMemory.get: a copy of the stored record, or NoRecord.  A stored
\* record is never falsy (it has five keys), and neither is a stored question.
get(tm, question) ==
    LET key == Strip(question)
        alias_question == _resolve_index_alias(tm, key)
        alias_record ==
            IF alias_question = None THEN NoRecord
            ELSE DictGet(tm.records, alias_question)
        norm == _normalize_text(key)
        original == NormIndexGet(tm._norm_index, norm)
        exact_record ==
            IF original = None THEN NoRecord ELSE DictGet(tm.records, original)
        fuzzy_record(matched_question) ==
            IF matched_question = None THEN NoRecord
            ELSE DictGet(tm.records, matched_question)
    IN  IF key = <<>> THEN NoRecord
        ELSE IF alias_record # NoRecord THEN alias_record
        ELSE IF norm = <<>> THEN NoRecord
        ELSE IF exact_record # NoRecord THEN exact_record
        ELSE fuzzy_record(_best_fuzzy_match(tm, norm))

\* TrialMemory._write: the document written from the records
_write(tm) == [kind |-> "list", items |-> tm.records]

\* how TrialMemory._write ends: the document is written; or mkdir or open
\* fails and the file is left as it was; or json.dump fails after open("w")
\* has truncated the file, which no longer parses
WriteOutcomes == {"written", "unopened", "truncated"}

\* TrialMemory.save_record: <<the instance, the store document>> afterwards
save_record(tm, record, doc, written) ==
    LET Written(saved) ==
            <<saved, CASE written = "written" -> _write(saved)
                       [] written = "unopened" -> doc
                       [] written = "truncated" -> [kind |-> "corrupt", items |-> <<>>]>>
        Put(records) ==
            Written([tm EXCEPT !.records = records, !._norm_index = _reindex(records)])
        Saved(normalized) ==
            IF normalized = NoRecord THEN <<tm, doc>>
            ELSE Put(DictPut(tm.records, normalized))
    IN  Saved(_normalize_record(record))

(***************************************************************************)
(* The objects of a TrialMemory.  The record that _normalize_record builds *)
(* is a dict that holds two more objects, its list of thinking cues and    *)
(* its decision dict.  An object is named by its position in a sequence of *)
(* objects; a record object holds the positions of its list and of its     *)
(* decision.  A heap is [objects, records]: the objects there are, and for *)
(* each entry of TrialMemory.records the record object it holds.           *)
(***************************************************************************)
\* no object has been made
NoHeap == [objects |-> <<>>, records |-> <<>>]

\* json.dumps(record) of the record object at ref: the text holds what the
\* record, its list and its decision hold, and names no object
json_dumps(objects, ref) ==
    [objects[ref] EXCEPT !.thinking_cues = objects[@], !.decision = objects[@]]

\* json.loads(text) of the text of a record: a new list, a new decision and
\* a new record that holds them: <<the objects afterwards, the record made>>
json_loads(objects, text) ==
    LET n == Len(objects)
    IN  <<objects \o <<text.thinking_cues, text.decision,
                       [text EXCEPT !.thinking_cues = n + 1, !.decision = n + 2]>>,
          n + 3>>

\* a get that returns dict(record): a new record that holds the list and
\* the decision of the stored one
ReturnedShallow(objects, ref) == <<Append(objects, objects[ref]), Len(objects) + 1>>

\* TrialMemory.get: return json.loads(json.dumps(record))
Returned(objects, ref) == json_loads(objects, json_dumps(objects, ref))

RECURSIVE HeapFrom(_, _, _)
HeapFrom(records, i, made) ==
    IF i > Len(records) THEN made
    ELSE LET built == json_loads(made.objects, records[i])
         IN  HeapFrom(records, i + 1,
                      [objects |-> built[1], records |-> Append(made.records, built[2])])

\* the objects of an instance whose records are these: _normalize_record
\* builds each record, with its list and its decision, on its own
HeapOf(records) == HeapFrom(records, 1, NoHeap)

\* what the entries of TrialMemory.records hold
Contents(h) == [i \in 1..Len(h.records) |-> json_dumps(h.objects, h.records[i])]

\* the objects of the instance alone: the record an earlier get returned is
\* no longer referenced, and what was made for it is gone
StoreObjects(h) ==
    SubSeq(h.objects, 1, Len(HeapOf(Contents(h)).objects))

\* self.records.get(question): the record object stored under the question
RecordObject(h, records, question) ==
    h.records[CHOOSE i \in 1..Len(records) : records[i].question = question]

(***************************************************************************)
(* plan/behavior_generator.py: the confidence helpers                      *)
(***************************************************************************)
T_low == <<"l", "o", "w">>
T_medium == <<"m", "e", "d", "i", "u", "m">>
T_high == <<"h", "i", "g", "h">>

\* the keys of BehaviorGenerator.CONFIDENCE_BEHAVIORS
CONFIDENCE_BEHAVIORS == {T_low, T_medium, T_high}

\* an estimate whose limits belong to the lower tier
_estimate_confidence_from_words_inclusive(word_count) ==
    IF word_count <= LowWordLimit THEN T_low
    ELSE IF word_count <= MediumWordLimit THEN T_medium
    ELSE T_high

\* BehaviorGenerator._estimate_confidence_from_words
_estimate_confidence_from_words(word_count) ==
    IF word_count < LowWordLimit THEN T_low
    ELSE IF word_count < MediumWordLimit THEN T_medium
    ELSE T_high

\* BehaviorGenerator.resolve_confidence raises AttributeError: the hint is
\* truthy and has no strip()
ResolveRaises(hint) == Truthy(hint) /\ ~IsStr(hint)

\* BehaviorGenerator.resolve_confidence
resolve_confidence(hint, word_count) ==
    IF Truthy(hint) /\ IsStr(hint) /\ Lower(Strip(hint)) \in CONFIDENCE_BEHAVIORS
    THEN Lower(Strip(hint))
    ELSE _estimate_confidence_from_words(word_count)

\* BehaviorGenerator.set_pending_confidence: the value stored
set_pending_confidence(confidence) ==
    IF IsStr(confidence) /\ confidence \in CONFIDENCE_BEHAVIORS THEN confidence
    ELSE T_medium

\* BehaviorGenerator.perform_thinking_behavior: the actuation it dispatches
\* for one cue; the scripted sequence of thinking_config.json is empty
\* (DEFAULT_CONFIG), so a missing instruction falls to the fixed alternation
perform_thinking_behavior(sequence_index, instruction) ==
    IF instruction # None
    THEN [index |-> sequence_index, source |-> "plan", step |-> instruction]
    ELSE [index |-> sequence_index, source |-> "cycle",
          step |-> IF sequence_index % 2 = 0
                   THEN <<"look straight", "Thoughtful">>
                   ELSE <<"slight head shake", "Oh">>]

(***************************************************************************)
(* plan/orchestrator.py: module-level helpers                              *)
(***************************************************************************)
\* normalize_thinking_notes: the truthy items of a list as texts, a text
\* that is not blank as a one-item list, nothing otherwise
normalize_thinking_notes(notes) ==
    IF JsonKind(notes) = "list"
    THEN LET kept == SelectSeq(notes, LAMBDA item : Truthy(item))
         IN  [i \in 1..Len(kept) |-> str(kept[i])]
    ELSE IF JsonKind(notes) = "str" /\ Strip(notes) # <<>> THEN <<Strip(notes)>>
    ELSE <<>>

LookAtTarget == <<"x", "y", "z">>

\* str(entry.get(key, "")).strip() on a field of a plan entry
PlanField(field) == IF Absent(field) THEN <<>> ELSE Strip(str(field))

\* normalize_behavior_plan: a plan entry that is a dict is <<gesture,
\* expression, led, look_at>>, look_at being "xyz" for a dict with numeric
\* x, y and z; the normalized entry has the three texts, and look_at "xyz"
\* or None.  Entries that are no dict or have nothing to do are dropped.
normalize_behavior_plan(plan) ==
    IF JsonKind(plan) # "list" THEN <<>>
    ELSE LET entries == SelectSeq(plan, LAMBDA entry : JsonKind(entry) = "list")
             stripped == [i \in 1..Len(entries) |->
                 <<PlanField(entries[i][1]), PlanField(entries[i][2]),
                   PlanField(entries[i][3]),
                   IF ToString(entries[i][4]) = ToString(LookAtTarget)
                   THEN LookAtTarget ELSE None>>]
         IN  SelectSeq(stripped,
                 LAMBDA e : ~(e[1] = <<>> /\ e[2] = <<>> /\ e[3] = <<>> /\ e[4] = None))

\* the characters of strip(".!?...") as the source file spells them
CueStripChars == {".", "!", "?", "u00E2", "u20AC", "u00A6"}

\* _is_meaningful_thinking_cue
_is_meaningful_thinking_cue(text) == StripChars(Strip(text), CueStripChars) # <<>>

\* "Do you have another question?"
FollowUpTail ==
    <<"D", "o", " ", "y", "o", "u", " ", "h", "a", "v", "e", " ", "a", "n", "o",
      "t", "h", "e", "r", " ", "q", "u", "e", "s", "t", "i", "o", "n", "?">>

\* Orchestrator._append_follow_up with user_has_more left at None
_append_follow_up(answer) == Strip(answer \o <<" ">> \o FollowUpTail)

\* "I'm sorry, I can't provide an answer at the moment."
FallbackAnswer ==
    <<"I", "'", "m", " ", "s", "o", "r", "r", "y", ",", " ", "I", " ", "c", "a",
      "n", "'", "t", " ", "p", "r", "o", "v", "i", "d", "e", " ", "a", "n", " ",
      "a", "n", "s", "w", "e", "r", " ", "a", "t", " ", "t", "h", "e", " ", "m",
      "o", "m", "e", "n", "t", ".">>

\* bool(decision.get("need_thinking", default))
NeedThinking(decision, default) ==
    IF ~Has(decision, "need_thinking") THEN default
    ELSE Truthy(decision.need_thinking)

\* a value that cannot be looked up in a dict: the lookup raises TypeError
Unhashable(value) == JsonKind(value) \in {"list", "nil", "dict"}

(***************************************************************************)
(* The session: what the robot hears, what the decision service answers,   *)
(* what the store document holds.                                          *)
(***************************************************************************)
\* stored trials (my_trials.json)
E_tea ==
    [question |-> <<"t", "e", "a">>, answer |-> <<"H", "o", "t", ".">>,
     thinking_cues |-> << <<"H", "m", ".">>, <<" ">>, <<"O", "k">> >>,
     decision |-> [EmptyDecision EXCEPT
                      !.need_thinking = JTrue,
                      !.confidence = T_high,
                      !.thinking_behavior_plan =
                          << <<<<"n", "o", "d">>, <<>>, <<>>, None>>,
                             <<<<>>, <<>>, <<"r", "e", "d">>, None>> >>],
     final_confidence |-> None]
E_sky ==
    [question |-> <<"s", "k", "y">>, answer |-> <<"B", "l", "u", "e", ".", " ">>,
     thinking_cues |-> None, decision |-> EmptyDecision,
     final_confidence |-> <<"s", "u", "r", "e">>]
Documents == {[kind |-> "list", items |-> <<E_tea, E_sky>>]}

\* what the speech recogniser may deliver as the text of a hear-end event:
\* an index alias, a question that normalizes to a stored one, a new
\* question, silence
Utterances_q1 == <<"q", "1">>
Utterances_why == <<"w", "h", "y", "?">>
Utterances ==
    {Utterances_q1, <<" ", "S", "k", "y", "!">>, Utterances_why, <<" ">>}

\* what the decision service may answer (after a successful parse)
D_direct ==
    [EmptyDecision EXCEPT !.need_thinking = JFalse, !.confidence = T_high,
                          !.answer = <<"Y", "e", "s", ".">>]
D_bare == [EmptyDecision EXCEPT !.confidence = <<"H", "i", "g", "h">>,
                                !.answer = JNull]
D_think ==
    [EmptyDecision EXCEPT !.need_thinking = JTrue,
                          !.thinking_notes = << <<" ">>, <<"H", "m">> >>]
D_plan ==
    [EmptyDecision EXCEPT !.need_thinking = JTrue,
                          !.confidence = <<" ", "L", "O", "W">>,
                          !.thinking_behavior_plan =
                              << <<<<"n", "o", "d">>, <<>>, <<>>, None>>,
                                 <<<<" ">>, <<>>, <<>>, None>>,
                                 <<<<>>, <<"O", "h">>, <<>>, LookAtTarget>>,
                                 <<<<>>, <<>>, <<"r", "e", "d">>, None>> >>]
Decisions == {D_direct, D_bare, D_think, D_plan}

\* the k-th clause the answer stream delivers
AnswerClause(k) == <<"A", IF k = 1 THEN "1" ELSE IF k = 2 THEN "2" ELSE "3", ".">>
\* the k-th clause the thinking stream delivers: a cue, or punctuation only
ThinkingClause(k, meaningful) ==
    IF meaningful THEN <<"c", IF k = 1 THEN "1" ELSE IF k = 2 THEN "2" ELSE "3", ".">>
    ELSE <<".">>

\* reasoning_model.word_count as the consumer may read it while the producer
\* thread is still writing it
WordCounts == {0, LowWordLimit - 1, LowWordLimit, MediumWordLimit - 1, MediumWordLimit}

\* the loop clock stops being counted here (past every deadline)
MaxClock == 20

\* how long an awaited network call may take
Delays == {0, MIN_THINKING_DURATION_SECONDS, THINKING_DURATION_SECONDS}

\* FurhatBridge(replay_only, use_trial_memory): the default, replay only,
\* and without the store
Modes == {<<FALSE, TRUE>>, <<TRUE, TRUE>>, <<FALSE, FALSE>>}

Runs == 1..MaxRuns
Terminal == {"done", "failed", "cancelled"}

\* the positions of the coroutine of FurhatBridge.run()
RunPositions ==
    {"none", "connect", "attend_user", "speak_text", "listen_start", "wait",
     "shutdown", "disconnect", "done", "failed"}

VARIABLES
    \* the store document on disk
    disk,
    \* FurhatBridge.replay_only, FurhatBridge.use_trial_memory
    replay_only, use_trial_memory,
    \* FurhatBridge.shutting_down; FurhatBridge.stop_event: "None", or the
    \* asyncio.Event "clear" or "set"
    shutting_down, stop_event,
    \* the await at which the coroutine of FurhatBridge.run() stands, and the
    \* one at which the coroutine of FurhatBridge.shutdown() stands that
    \* went past its first test
    run_task, shutdown_task,
    \* FurhatBridge.orchestrator_task: 0 for None, else the run
    orchestrator_task,
    \* BehaviorGenerator._thinking_mode, BehaviorGenerator._pending_confidence
    thinking_mode, pending_confidence,
    \* the number of orchestrator tasks created so far
    created,
    \* the speech events the robot has yet to deliver for the speech requested
    robot_events,
    \* per run: the Orchestrator's fields and the positions of its two tasks
    orch,
    \* per run: the calls it made on its collaborators
    obs,
    \* one ChatGPTSentenceStreamer.stream() call on its own: what
    \* _token_stream will deliver, the producer thread, the put_nowait
    \* callbacks the loop has yet to run, the asyncio queue and the consumer
    \* of the async generator
    feed, producer, callbacks, queue, consumer,
    \* one TrialMemory instance on its own, the last get() made on it, and
    \* the objects of the instance and of the caller of get()
    memory, lookup, heap

\* the variables of FurhatBridge.run and shutdown
main_vars == <<shutting_down, stop_event, run_task, shutdown_task>>

\* the variables of the bridge and of its runs
bridge_vars ==
    <<disk, replay_only, use_trial_memory, main_vars, orchestrator_task,
      thinking_mode, pending_confidence, created, robot_events, orch, obs>>

\* the variables of the streamer and of the store taken on their own
unit_vars == <<feed, producer, callbacks, queue, consumer, memory, lookup, heap>>

vars == <<disk, replay_only, use_trial_memory, main_vars, orchestrator_task,
          thinking_mode, pending_confidence, created, robot_events, orch, obs,
          unit_vars>>

\* no stream() call has been made
NoFeed == [tokens |-> <<>>, fails |-> FALSE]
IdleProducer == [pc |-> "idle", next |-> 1, buffer |-> <<>>, word_count |-> 0, ready |-> <<>>]
IdleConsumer == [pc |-> "idle", received |-> <<>>, resolved_confidence |-> None]
\* no get() has been made
NoLookup == [question |-> None, record |-> NoRecord, ref |-> 0]

EmptyMemory == [records |-> <<>>, _ordered_questions |-> <<>>, _norm_index |-> <<>>]

\* a run that has not been created
IdleRun ==
    [question |-> <<>>, pc |-> "idle", cancelled |-> FALSE, path |-> "none",
     trial_memory |-> EmptyMemory, decision |-> EmptyDecision, record |-> NoRecord,
     current_answer_text |-> <<>>, thinking_cues_emitted |-> <<>>,
     resolved_confidence |-> None, thinking_window_done |-> FALSE,
     full_answer_parts |-> <<>>, full_answer |-> <<>>, first_clause |-> TRUE,
     answered |-> 0,
     unwinding |-> "none", idx |-> 0,
     tpc |-> "none", tcancelled |-> FALSE, thinking_notes |-> <<>>,
     behavior_plan |-> <<>>, emitted |-> 0, note_index |-> 0, source |-> "notes",
     delivered |-> 0, elapsed |-> 0, texit |-> "none"]

NoCalls ==
    [decide_calls |-> 0, decide_failed |-> FALSE, streams |-> {}, items |-> 0,
     speaks |-> <<>>, behaviors |-> <<>>, resolves |-> 0, persist_calls |-> 0,
     saves |-> 0, speak_raised |-> FALSE, cancel_seen |-> FALSE,
     cancel_open |-> FALSE]

\* the bridge constructed in one of modes
Start(modes) ==
    /\ disk \in Documents
    /\ \E mode \in modes : replay_only = mode[1] /\ use_trial_memory = mode[2]
    /\ shutting_down = FALSE
    /\ stop_event = "None"
    /\ run_task = "none"
    /\ shutdown_task = "none"
    /\ orchestrator_task = 0
    /\ thinking_mode = FALSE
    /\ pending_confidence = None
    /\ created = 0
    /\ robot_events = <<>>
    /\ orch = [r \in Runs |-> IdleRun]
    /\ obs = [r \in Runs |-> NoCalls]

\* no streamer and no store is exercised on its own
UnitsIdle ==
    /\ feed = NoFeed
    /\ producer = IdleProducer
    /\ callbacks = <<>>
    /\ queue = <<>>
    /\ consumer = IdleConsumer
    /\ memory = EmptyMemory
    /\ lookup = NoLookup
    /\ heap = NoHeap

(***************************************************************************)
(* connection/furhat_bridge.py: the event handlers                         *)
(***************************************************************************)
\* asyncio.Task.done() of the task the handle names
TaskDone(r) == orch[r].pc \in Terminal
ThinkingFinished(o) == o.tpc \in Terminal

\* asyncio.Task.cancel() on the run's task: while the task awaits its
\* thinking task the request is passed on to that task; otherwise
\* CancelledError is thrown into the run's coroutine at its next step
TaskCancel(o) ==
    IF o.pc = "join" /\ ~ThinkingFinished(o)
    THEN [o EXCEPT !.tcancelled = TRUE]
    ELSE [o EXCEPT !.cancelled = TRUE]

\* FurhatBridge.cancel_request
cancel_request ==
    IF orchestrator_task # 0 /\ ~TaskDone(orchestrator_task)
    THEN /\ orch' = [orch EXCEPT ![orchestrator_task] = TaskCancel(@)]
         /\ obs' = [obs EXCEPT ![orchestrator_task].cancel_open =
                        @ \/ (orch[orchestrator_task].path = "thinking"
                              /\ ~orch[orchestrator_task].thinking_window_done)]
    ELSE UNCHANGED <<orch, obs>>

\* what run() and shutdown() leave alone
main_frame ==
    <<unit_vars, disk, replay_only, use_trial_memory, orchestrator_task,
      thinking_mode, pending_confidence, created>>

\* FurhatBridge.run from its start to its await of furhat.connect(): the
\* event is made and the signal handler installed
run ==
    /\ run_task = "none"
    /\ stop_event' = "clear"
    /\ run_task' = "connect"
    /\ UNCHANGED <<main_frame, shutting_down, shutdown_task, robot_events, orch, obs>>

\* run() after furhat.connect(): when it raised run returns; otherwise the
\* handlers are registered and request_attend_user is awaited
run_after_connect(raised) ==
    /\ run_task = "connect"
    /\ run_task' = IF raised THEN "done" ELSE "attend_user"
    /\ UNCHANGED <<main_frame, shutting_down, stop_event, shutdown_task,
                   robot_events, orch, obs>>

\* run() after request_attend_user: the greeting is requested; the robot
\* will report its start and its end.  An exception of a request ends run()
run_after_attend_user(raised) ==
    /\ run_task = "attend_user"
    /\ run_task' = IF raised THEN "failed" ELSE "speak_text"
    /\ robot_events' = IF raised THEN robot_events
                       ELSE robot_events \o <<"start", "end">>
    /\ UNCHANGED <<main_frame, shutting_down, stop_event, shutdown_task, orch, obs>>

\* run() after request_speak_text(conversation_starter): request_listen_start
\* is awaited
run_after_speak_text(raised) ==
    /\ run_task = "speak_text"
    /\ run_task' = IF raised THEN "failed" ELSE "listen_start"
    /\ UNCHANGED <<main_frame, shutting_down, stop_event, shutdown_task,
                   robot_events, orch, obs>>

\* shutdown() from its start to its await of request_listen_stop, called by
\* caller ("run" or "bridge"); a call during shutdown returns at once, and
\* run() then awaits furhat.disconnect()
ShutdownBegins(caller) ==
    IF shutting_down
    THEN /\ run_task' = IF caller = "run" THEN "disconnect" ELSE run_task
         /\ UNCHANGED <<shutting_down, shutdown_task, orch, obs>>
    ELSE /\ shutting_down' = TRUE
         /\ cancel_request
         /\ shutdown_task' = "listen_stop"
         /\ run_task' = IF caller = "run" THEN "shutdown" ELSE run_task

\* run() after request_listen_start: stop_event.wait() is awaited; when the
\* event is set already the wait returns at once and shutdown() is called
run_after_listen_start(raised) ==
    /\ run_task = "listen_start"
    /\ IF raised
       THEN run_task' = "failed" /\ UNCHANGED <<shutting_down, shutdown_task, orch, obs>>
       ELSE IF stop_event = "set" THEN ShutdownBegins("run")
       ELSE run_task' = "wait" /\ UNCHANGED <<shutting_down, shutdown_task, orch, obs>>
    /\ UNCHANGED <<main_frame, stop_event, robot_events>>

\* run() after stop_event.wait(): shutdown() is called
run_after_wait ==
    /\ run_task = "wait"
    /\ stop_event = "set"
    /\ ShutdownBegins("run")
    /\ UNCHANGED <<main_frame, stop_event, robot_events>>

\* run() after furhat.disconnect(), whose exception is caught
run_after_disconnect ==
    /\ run_task = "disconnect"
    /\ run_task' = "done"
    /\ UNCHANGED <<main_frame, shutting_down, stop_event, shutdown_task,
                   robot_events, orch, obs>>

\* the handler that setup_signal_handlers installed for SIGINT and SIGTERM
signal_handler ==
    /\ run_task # "none"
    /\ stop_event = "clear"
    /\ stop_event' = "set"
    /\ UNCHANGED <<main_frame, shutting_down, run_task, shutdown_task,
                   robot_events, orch, obs>>

\* FurhatBridge.shutdown called on the bridge, from its start to its await
\* of request_listen_stop
shutdown ==
    /\ ~shutting_down
    /\ ShutdownBegins("bridge")
    /\ UNCHANGED <<main_frame, stop_event, robot_events>>

\* the end of shutdown(): the event is set; run(), when it was the caller,
\* awaits furhat.disconnect()
ShutdownEnds ==
    /\ shutdown_task' = "done"
    /\ stop_event' = IF stop_event = "None" THEN "None" ELSE "set"
    /\ run_task' = IF run_task = "shutdown" THEN "disconnect" ELSE run_task

\* shutdown() after request_listen_stop: request_speak_stop is awaited; an
\* exception is caught and ends the requests
shutdown_after_listen_stop(raised) ==
    /\ shutdown_task = "listen_stop"
    /\ IF raised THEN ShutdownEnds
       ELSE shutdown_task' = "speak_stop" /\ UNCHANGED <<stop_event, run_task>>
    /\ UNCHANGED <<main_frame, shutting_down, robot_events, orch, obs>>

\* shutdown() after request_speak_stop
shutdown_after_speak_stop ==
    /\ shutdown_task = "speak_stop"
    /\ ShutdownEnds
    /\ UNCHANGED <<main_frame, shutting_down, robot_events, orch, obs>>

\* FurhatBridge.on_hear_start
on_hear_start ==
    /\ IF shutting_down THEN UNCHANGED <<orch, obs>> ELSE cancel_request
    /\ UNCHANGED <<unit_vars, disk, replay_only, use_trial_memory, main_vars, orchestrator_task,
                   thinking_mode, pending_confidence, created, robot_events>>

\* the handle is overwritten: the Orchestrator of a finished run and the
\* record of its calls are released; its question and outcome stay known
Released(o) ==
    IF o.pc \in Terminal
    THEN [IdleRun EXCEPT !.question = o.question, !.pc = o.pc, !.path = o.path]
    ELSE o

\* FurhatBridge.on_hear_end: the new task is created, not yet run
on_hear_end(text) ==
    /\ ~shutting_down
    /\ ~(orchestrator_task # 0 /\ ~TaskDone(orchestrator_task))
    /\ Strip(text) # <<>>
    /\ created' = created + 1
    /\ orchestrator_task' = created + 1
    /\ orch' = [r \in Runs |->
                    IF r = created + 1
                    THEN [IdleRun EXCEPT !.question = Strip(text), !.pc = "created"]
                    ELSE Released(orch[r])]
    /\ obs' = [r \in Runs |-> IF orch[r].pc \in Terminal THEN NoCalls ELSE obs[r]]
    /\ UNCHANGED <<unit_vars, disk, replay_only, use_trial_memory, main_vars, thinking_mode,
                   pending_confidence, robot_events>>

\* FurhatBridge.on_speak_start: in thinking mode and during shutdown the
\* event is dropped;
\* otherwise infer_confidence_from_text consumes the pending confidence
on_speak_start ==
    /\ robot_events # <<>> /\ Head(robot_events) = "start"
    /\ robot_events' = Tail(robot_events)
    /\ pending_confidence' = IF shutting_down \/ thinking_mode
                             THEN pending_confidence ELSE None
    /\ UNCHANGED <<unit_vars, disk, replay_only, use_trial_memory, main_vars, orchestrator_task,
                   thinking_mode, created, orch, obs>>

\* FurhatBridge.on_speak_end: in thinking mode and during shutdown the
\* event is dropped;
\* otherwise the handle is cleared
on_speak_end ==
    /\ robot_events # <<>> /\ Head(robot_events) = "end"
    /\ robot_events' = Tail(robot_events)
    /\ orchestrator_task' = IF shutting_down \/ thinking_mode
                            THEN orchestrator_task ELSE 0
    /\ UNCHANGED <<unit_vars, disk, replay_only, use_trial_memory, main_vars, thinking_mode,
                   pending_confidence, created, orch, obs>>

(***************************************************************************)
(* plan/orchestrator.py: the Orchestrator.  The operators below transform  *)
(* st = [o, b, mode, pending, disk]: the run's Orchestrator and task       *)
(* state, the calls it has made, BehaviorGenerator's thinking-mode flag    *)
(* and pending confidence, and the store document.                         *)
(***************************************************************************)
St(r) ==
    [o |-> orch[r], b |-> obs[r], mode |-> thinking_mode,
     pending |-> pending_confidence, disk |-> disk, events |-> robot_events]

Min(a, b) == IF a < b THEN a ELSE b
Max(a, b) == IF a < b THEN b ELSE a

\* loop.time() - start_time after an await that took d
Tick(st, d) == [st EXCEPT !.o.elapsed = Min(@ + d, MaxClock)]

\* min(MIN_THINKING_DURATION_SECONDS, THINKING_DURATION_SECONDS)
MinDuration == Min(MIN_THINKING_DURATION_SECONDS, THINKING_DURATION_SECONDS)

\* emit_line without the wrap: past the end of the plan its last entry is
\* used again
emit_line_unwrapped(st, index, plan) ==
    LET instruction == IF plan # <<>> THEN plan[Min(index, Len(plan) - 1) + 1]
                       ELSE None
    IN  [st EXCEPT !.b.behaviors =
             Append(@, perform_thinking_behavior(index, instruction))]

\* emit_line, and the same call in _replay_cached_trial: one
\* perform_thinking_behavior dispatch, with the plan entry index % len(plan)
emit_line(st, index, plan) ==
    LET instruction == IF plan # <<>> THEN plan[(index % Len(plan)) + 1] ELSE None
    IN  [st EXCEPT !.b.behaviors =
             Append(@, perform_thinking_behavior(index, instruction))]

\* perform_thinking_behavior suspends its caller: everything it dispatches
\* is awaited, except for a plan entry that names no gesture, no expression
\* and no place to look at, for which _apply_behavior_instruction awaits
\* nothing
Suspends(behavior) ==
    ~(behavior.source = "plan" /\ behavior.step[1] = <<>>
          /\ behavior.step[2] = <<>> /\ behavior.step[4] = None)

\* the call of emit_line that st has just made has not returned
AwaitsBehavior(st) == Suspends(st.b.behaviors[Len(st.b.behaviors)])

\* furhat_client.request_speak_text(text): the robot will report the start
\* and the end of the speech
request_speak_text(st, text) ==
    [st EXCEPT !.b.speaks = Append(@, text),
               !.events = @ \o <<"start", "end">>]

\* Orchestrator._persist_trial_record
_persist_trial_record(st, written) ==
    LET called == [st EXCEPT !.b.persist_calls = @ + 1]
        record == [question |-> st.o.question,
                   answer |-> st.o.current_answer_text,
                   thinking_cues |-> st.o.thinking_cues_emitted,
                   decision |-> st.o.decision,
                   final_confidence |->
                       IF st.o.resolved_confidence = None
                       THEN <<"N", "o", "n", "e">>
                       ELSE st.o.resolved_confidence]
        Saved(saved) ==
            [called EXCEPT !.b.saves = @ + 1, !.o.trial_memory = saved[1],
                           !.disk = saved[2]]
    IN  IF ~PERSIST_TRIALS \/ ~use_trial_memory THEN called
        ELSE IF st.o.current_answer_text = <<>> THEN called
        ELSE Saved(save_record(st.o.trial_memory, record, st.disk, written))

(***************************************************************************)
(* Orchestrator._relay_thinking (the thinking task)                        *)
(***************************************************************************)
\* a window that is closed by the deadline alone
WindowExhaustedByTime(o) == o.elapsed >= THINKING_DURATION_SECONDS

\* loop.time() >= deadline or emitted >= MAX_THINKING_CUES
WindowExhausted(o) ==
    o.elapsed >= THINKING_DURATION_SECONDS \/ o.emitted >= MAX_THINKING_CUES

\* the thinking task ends with outcome: the locals of its coroutine are gone
ThinkingEnds(st, outcome) ==
    [st EXCEPT !.o.tpc = outcome, !.o.texit = "none", !.o.emitted = 0,
               !.o.note_index = 0, !.o.source = "notes", !.o.delivered = 0,
               !.o.elapsed = 0, !.o.thinking_notes = <<>>,
               !.o.behavior_plan = <<>>]

\* ThinkingClose, had the two statements been placed after the loops instead
\* of in the finally block: an exception would skip them
ThinkingCloseAfterLoops(st) ==
    IF st.o.texit = "normal"
    THEN ThinkingEnds([st EXCEPT !.mode = FALSE, !.o.thinking_window_done = TRUE],
                      "done")
    ELSE ThinkingEnds(st, IF st.o.texit = "error" THEN "failed" ELSE "cancelled")

\* the last two statements of the finally block, and the task's outcome
ThinkingClose(st) ==
    ThinkingEnds([st EXCEPT !.mode = FALSE, !.o.thinking_window_done = TRUE],
                 CASE st.o.texit = "error" -> "failed"
                   [] st.o.texit = "cancel" -> "cancelled"
                   [] OTHER -> "done")

\* a finally block without the floor sleep
ThinkingFinallyAtOnce(st, exit) == ThinkingClose([st EXCEPT !.o.texit = exit])

\* the finally block, entered when the loops are left by exit: the floor
\* sleep is awaited only while the minimum duration has not elapsed
ThinkingFinally(st, exit) ==
    LET left == [st EXCEPT !.o.texit = exit]
    IN  IF st.o.elapsed < MinDuration
        THEN [left EXCEPT !.o.tpc = "floor"]
        ELSE ThinkingClose(left)

\* async for cue in thinking_model.stream(): the stream is opened and its
\* first item awaited
ThinkingStreamOpen(st) ==
    [st EXCEPT !.b.streams = @ \cup {"thinking"}, !.o.tpc = "get",
               !.o.source = "stream"]

\* after emit_line returned: count the cue, then pause or leave the loop
AfterEmit(st) ==
    LET counted == [st EXCEPT !.o.emitted = @ + 1]
    IN  IF WindowExhausted(counted.o)
        THEN IF st.o.source = "notes" THEN ThinkingStreamOpen(counted)
             ELSE ThinkingFinally(counted, "normal")
        ELSE [counted EXCEPT !.o.tpc = "pause"]

RECURSIVE NotesFrom(_, _)
\* the loop over thinking_notes from the i-th note to its next await
NotesFrom(st, i) ==
    IF i > Len(st.o.thinking_notes) \/ WindowExhausted(st.o)
    THEN ThinkingStreamOpen(st)
    ELSE LET cleaned == Strip(st.o.thinking_notes[i])
         IN  IF cleaned = <<>> THEN NotesFrom(st, i + 1)
             ELSE LET Called(called) ==
                          IF AwaitsBehavior(called) THEN called ELSE AfterEmit(called)
                  IN  Called(emit_line(
                          [st EXCEPT !.o.thinking_cues_emitted = Append(@, cleaned),
                                     !.o.note_index = i, !.o.source = "notes",
                                     !.o.tpc = "emit"],
                          st.o.emitted, st.o.behavior_plan))

\* after asyncio.sleep(THINKING_PAUSE_SECONDS)
AfterPause(st) ==
    IF st.o.source = "notes" THEN NotesFrom(st, st.o.note_index + 1)
    ELSE [st EXCEPT !.o.tpc = "get"]

\* the body of the async for, for one cue of the thinking stream
StreamCue(st, cue) ==
    LET got == [st EXCEPT !.o.delivered = @ + 1, !.b.items = @ + 1]
        Called(called) ==
            IF AwaitsBehavior(called) THEN called ELSE AfterEmit(called)
    IN  IF WindowExhausted(got.o) THEN ThinkingFinally(got, "normal")
        ELSE IF ~_is_meaningful_thinking_cue(cue) THEN got
        ELSE Called(emit_line(
                 [got EXCEPT !.o.thinking_cues_emitted = Append(@, cue),
                             !.o.tpc = "emit"],
                 got.o.emitted, got.o.behavior_plan))

\* CancelledError thrown into the thinking task at its await: inside the
\* try block the finally block runs; inside the floor sleep of the finally
\* block the rest of that block is skipped
ThinkingCancelled(st) ==
    LET seen == [st EXCEPT !.o.tcancelled = FALSE, !.b.cancel_seen = TRUE]
    IN  IF st.o.tpc = "floor" THEN ThinkingEnds(seen, "cancelled")
        ELSE ThinkingFinally(seen, "cancel")

(***************************************************************************)
(* Orchestrator.run, _respond_directly, _relay_answer (the run's task)     *)
(***************************************************************************)
\* the confidence is fixed for the answer: resolved_confidence is assigned
\* and handed to BehaviorGenerator.set_pending_confidence
SetConfidence(st, confidence) ==
    [st EXCEPT !.o.resolved_confidence = confidence,
               !.b.resolves = @ + 1,
               !.pending = set_pending_confidence(confidence)]

\* the coroutine of _process_user_input ends with outcome: the locals of
\* run() and of the coroutines it awaited are gone
Finish(st, outcome) ==
    [st EXCEPT !.o.pc = outcome, !.o.full_answer_parts = <<>>,
               !.o.full_answer = <<>>, !.o.first_clause = TRUE,
               !.o.answered = 0, !.o.unwinding = "none", !.o.idx = 0,
               !.o.elapsed = 0, !.o.behavior_plan = <<>>]

\* run() after _relay_answer left with unwinding ("none", "error" or
\* "cancel"): finally: await thinking_task, then _persist_trial_record.  An
\* exception of the thinking task replaces the one being unwound.
Join(st, unwinding, written) ==
    IF ~ThinkingFinished(st.o)
    THEN [st EXCEPT !.o.pc = "join", !.o.unwinding = unwinding]
    ELSE IF st.o.tpc = "failed" THEN Finish(st, "failed")
    ELSE IF st.o.tpc = "cancelled" THEN Finish(st, "cancelled")
    ELSE IF unwinding = "error" THEN Finish(st, "failed")
    ELSE IF unwinding = "cancel" THEN Finish(st, "cancelled")
    ELSE Finish(_persist_trial_record(st, written), "done")

\* _respond_directly up to its await of request_speak_text; an answer that
\* is truthy and no text has no strip(), a hint that is a list or a dict
\* cannot be looked up, and the run fails
_respond_directly(st, confidence_hint) ==
    LET raw == Get(st.o.decision, "answer")
        given == IF Truthy(raw) /\ IsStr(raw) THEN Strip(raw) ELSE <<>>
        answer == IF given = <<>> THEN FallbackAnswer ELSE given
        confidence == IF IsStr(confidence_hint)
                         /\ confidence_hint \in CONFIDENCE_BEHAVIORS
                      THEN confidence_hint ELSE T_medium
        full_answer == _append_follow_up(Strip(answer))
    IN  IF (Truthy(raw) /\ ~IsStr(raw)) \/ Unhashable(confidence_hint)
        THEN Finish(st, "failed")
        ELSE request_speak_text(
                 [SetConfidence(st, confidence) EXCEPT !.o.full_answer = full_answer,
                                                       !.o.pc = "direct_speak"],
                 full_answer)

\* _relay_answer: the first clause is past the barrier; the confidence is
\* resolved from the hint and the word count read at this moment
FirstClause(st, word_count) ==
    IF ResolveRaises(Get(st.o.decision, "confidence"))
    THEN Join(st, "error", "unopened")
    ELSE [SetConfidence(st, resolve_confidence(Get(st.o.decision, "confidence"),
                                               word_count))
             EXCEPT !.o.first_clause = FALSE,
                    !.o.full_answer_parts = Append(@, AnswerClause(st.o.answered)),
                    !.o.pc = "ans_get"]

\* RelayClause without the wait on thinking_window_done
RelayClauseUnordered(st, word_count) ==
    LET got == [st EXCEPT !.o.answered = @ + 1, !.b.items = @ + 1]
    IN  IF got.o.first_clause THEN FirstClause(got, word_count)
        ELSE [got EXCEPT !.o.full_answer_parts =
                             Append(@, AnswerClause(got.o.answered))]

\* _relay_answer: a clause arrives from the answer stream
RelayClause(st, word_count) ==
    LET got == [st EXCEPT !.o.answered = @ + 1, !.b.items = @ + 1]
    IN  IF got.o.first_clause
        THEN IF got.o.thinking_window_done THEN FirstClause(got, word_count)
             ELSE [got EXCEPT !.o.pc = "ans_barrier"]
        ELSE [got EXCEPT !.o.full_answer_parts =
                             Append(@, AnswerClause(got.o.answered))]

\* _relay_answer: the answer stream ended
RelayEnd(st, written) ==
    LET full_answer ==
            _append_follow_up(Strip(JoinWith(st.o.full_answer_parts, <<" ">>)))
    IN  IF st.o.full_answer_parts # <<>>
        THEN request_speak_text(
                 [st EXCEPT !.o.full_answer = full_answer,
                            !.o.current_answer_text = full_answer,
                            !.o.pc = "ans_speak"],
                 full_answer)
        ELSE Join(st, "none", written)

\* RunCancelled with the CancelledError caught and dropped at the await
RunCancelledSwallowed(st) ==
    [st EXCEPT !.o.cancelled = FALSE, !.b.cancel_seen = TRUE]

\* CancelledError thrown into the run's coroutine at its await
RunCancelled(st) ==
    LET seen == [st EXCEPT !.o.cancelled = FALSE, !.b.cancel_seen = TRUE]
    IN  IF st.o.pc \in {"ans_get", "ans_barrier", "ans_speak"}
        THEN Join(seen, "cancel", "unopened")
        ELSE Finish(seen, "cancelled")

(***************************************************************************)
(* Orchestrator._replay_cached_trial                                       *)
(***************************************************************************)
\* final_confidence of _replay_cached_trial
ReplayConfidence(record, decision) ==
    LET given == Strip(str(GetOr(record, "final_confidence", <<>>)))
        raw_conf == Get(decision, "confidence")
        final_confidence ==
            IF given # <<>> THEN given
            ELSE IF IsStr(raw_conf) THEN Strip(raw_conf)
            ELSE <<>>
    IN  IF final_confidence \in CONFIDENCE_BEHAVIORS THEN final_confidence
        ELSE T_medium

\* ReplayAnswer with the follow-up line appended as on the other paths
ReplayAnswerFollowUp(st) ==
    LET answer == _append_follow_up(Strip(str(GetOr(st.o.record, "answer", <<>>))))
        released == [st EXCEPT !.o.thinking_window_done = TRUE]
    IN  request_speak_text(
            [SetConfidence(released, ReplayConfidence(st.o.record, st.o.decision))
                EXCEPT !.o.full_answer = answer, !.o.pc = "replay_speak"],
            answer)

\* _replay_cached_trial from the barrier to its await of request_speak_text
ReplayAnswer(st) ==
    LET answer == Strip(str(GetOr(st.o.record, "answer", <<>>)))
        released == [st EXCEPT !.o.thinking_window_done = TRUE]
    IN  request_speak_text(
            [SetConfidence(released, ReplayConfidence(st.o.record, st.o.decision))
                EXCEPT !.o.full_answer = answer, !.o.pc = "replay_speak"],
            answer)

\* the thinking_cues of _replay_cached_trial: the loop over
\* record.get("thinking_cues") or [] takes a text character by character
ReplayCues(cues) ==
    IF ~Truthy(cues) THEN <<>>
    ELSE IF IsStr(cues)
    THEN LET kept == SelectSeq(cues, LAMBDA c : c \notin Whitespace)
         IN  [i \in 1..Len(kept) |-> <<kept[i]>>]
    ELSE StripCues(cues)

\* _replay_cached_trial after its loop over the stored cues
ReplayWindowEnd(st) ==
    IF st.o.elapsed < MinDuration THEN [st EXCEPT !.o.pc = "replay_floor"]
    ELSE ReplayAnswer([st EXCEPT !.mode = FALSE])

\* the loop of _replay_cached_trial over the stored cues, from the cue of
\* index idx to its next await
ReplayFrom(st, idx) ==
    LET Called(called) ==
            IF AwaitsBehavior(called) THEN called
            ELSE IF idx < Len(st.o.thinking_cues_emitted) - 1
            THEN [called EXCEPT !.o.pc = "replay_pause"]
            ELSE ReplayWindowEnd(called)
    IN  Called(emit_line([st EXCEPT !.o.idx = idx, !.o.pc = "replay_behavior"],
                         idx, st.o.behavior_plan))

\* _replay_cached_trial up to its first await
_replay_cached_trial(st, record, skip_thinking) ==
    LET Begun(begun, need_thinking) ==
            IF need_thinking /\ begun.o.thinking_cues_emitted # <<>>
            THEN ReplayFrom([begun EXCEPT !.mode = TRUE], 0)
            ELSE ReplayAnswer(begun)
        Replay(thinking_cues, behavior_plan) ==
            Begun([st EXCEPT !.o.path = "replay", !.o.record = record,
                             !.o.decision = record.decision,
                             !.o.thinking_cues_emitted = thinking_cues,
                             !.o.behavior_plan = behavior_plan],
                  NeedThinking(record.decision, thinking_cues # <<>>)
                      /\ ~skip_thinking)
    IN  Replay(ReplayCues(Get(record, "thinking_cues")),
               normalize_behavior_plan(Get(record.decision, "thinking_behavior_plan")))

(***************************************************************************)
(* The steps of the event loop: one action is one task running from one    *)
(* await to the next.                                                      *)
(***************************************************************************)
\* the step's effect becomes the state; a run whose coroutine ended clears
\* the bridge's handle (_process_user_input)
Commit(r, st) ==
    \E after \in {st} :
    /\ orch' = [orch EXCEPT ![r] = after.o]
    /\ obs' = [obs EXCEPT ![r] = after.b]
    /\ thinking_mode' = after.mode
    /\ pending_confidence' = after.pending
    /\ disk' = after.disk
    /\ robot_events' = after.events
    /\ orchestrator_task' = IF after.o.pc \in Terminal THEN 0 ELSE orchestrator_task
    /\ UNCHANGED <<unit_vars, replay_only, use_trial_memory, main_vars, created>>

\* the run's task may take a step: it is not cancelled, and the thinking
\* task it created, which was scheduled first, has taken its first step
RunReady(r, pcs) ==
    /\ orch[r].pc \in pcs
    /\ ~orch[r].cancelled
    /\ orch[r].tpc # "created"

\* TrialMemory(): the store loaded from the document on disk
TrialMemory(doc) == _load(doc)

\* TrialMemory().get(question)
Lookup(doc, question) == get(TrialMemory(doc), question)

\* Orchestrator(...): the store is loaded; run(): the lookup
Constructed(r) == [St(r) EXCEPT !.o.trial_memory = TrialMemory(disk)]
Cached(r) ==
    IF use_trial_memory THEN Lookup(disk, orch[r].question) ELSE NoRecord

\* a run that asks the decision service before it replays the stored record
RunReplayAfterDecide(r) ==
    /\ RunReady(r, {"created"})
    /\ Cached(r) # NoRecord
    /\ Commit(r, _replay_cached_trial(
                     [Constructed(r) EXCEPT !.b.decide_calls = @ + 1],
                     Cached(r), replay_only))

\* run(): cache hit, the stored trial is replayed
RunReplay(r) ==
    /\ RunReady(r, {"created"})
    /\ Cached(r) # NoRecord
    /\ Commit(r, _replay_cached_trial(Constructed(r), Cached(r), replay_only))

\* RunDecideFails with the failure taken for an empty decision
RunDecideFallsBack(r) ==
    /\ RunReady(r, {"created"})
    /\ Cached(r) = NoRecord
    /\ Commit(r, _respond_directly(
                     [Constructed(r) EXCEPT !.o.path = "direct",
                                            !.b.decide_calls = @ + 1,
                                            !.b.decide_failed = TRUE,
                                            !.o.thinking_window_done = TRUE],
                     None))

\* run(): cache miss, controller.decide() raises
RunDecideFails(r) ==
    /\ RunReady(r, {"created"})
    /\ Cached(r) = NoRecord
    /\ Commit(r, Finish([Constructed(r) EXCEPT !.o.path = "decide",
                                               !.b.decide_calls = @ + 1,
                                               !.b.decide_failed = TRUE],
                        "failed"))

\* run(): cache miss, the decision asks for no thinking
RunDirect(r, decision) ==
    /\ RunReady(r, {"created"})
    /\ Cached(r) = NoRecord
    /\ ~NeedThinking(decision, FALSE)
    /\ Commit(r, _respond_directly(
                     [Constructed(r) EXCEPT !.o.path = "direct",
                                            !.o.decision = decision,
                                            !.b.decide_calls = @ + 1,
                                            !.o.thinking_window_done = TRUE],
                     Get(decision, "confidence")))

\* run(): cache miss, the decision asks for thinking: the thinking task is
\* created and _relay_answer awaits the first item of the answer stream.
\* The look-up of the tone for a hint that is a list or a dict fails the run.
RunThinking(r, decision) ==
    /\ RunReady(r, {"created"})
    /\ Cached(r) = NoRecord
    /\ NeedThinking(decision, FALSE)
    /\ Commit(r, IF Unhashable(Get(decision, "confidence"))
                 THEN Finish([Constructed(r) EXCEPT !.o.path = "thinking",
                                                    !.o.decision = decision,
                                                    !.b.decide_calls = @ + 1],
                             "failed")
                 ELSE
                 [Constructed(r) EXCEPT
                     !.o.path = "thinking",
                     !.o.decision = decision,
                     !.b.decide_calls = @ + 1,
                     !.o.thinking_notes =
                         normalize_thinking_notes(Get(decision, "thinking_notes")),
                     !.o.behavior_plan =
                         normalize_behavior_plan(Get(decision, "thinking_behavior_plan")),
                     !.mode = TRUE,
                     !.o.tpc = "created",
                     !.b.streams = @ \cup {"answer"},
                     !.o.pc = "ans_get"])

\* _respond_directly after request_speak_text, then _persist_trial_record
DirectAfterSpeak(r, raised, written) ==
    /\ RunReady(r, {"direct_speak"})
    /\ Commit(r, IF raised
                 THEN Finish([St(r) EXCEPT !.b.speak_raised = TRUE], "failed")
                 ELSE Finish(_persist_trial_record(
                                 [St(r) EXCEPT !.o.current_answer_text =
                                                   orch[r].full_answer],
                                 written),
                             "done"))

\* _relay_answer: the answer stream delivers a clause
AnswerClauseArrives(r, word_count) ==
    /\ RunReady(r, {"ans_get"})
    /\ Commit(r, RelayClause(St(r), word_count))

\* _relay_answer: thinking_window_done.wait() returns
AnswerBarrierPassed(r, word_count) ==
    /\ RunReady(r, {"ans_barrier"})
    /\ orch[r].thinking_window_done
    /\ Commit(r, FirstClause(St(r), word_count))

\* _relay_answer: the answer stream ends
AnswerStreamEnds(r, written) ==
    /\ RunReady(r, {"ans_get"})
    /\ Commit(r, RelayEnd([St(r) EXCEPT !.b.items = @ + 1], written))

\* _relay_answer: the answer stream forwards an exception of its producer
AnswerStreamFails(r) ==
    /\ RunReady(r, {"ans_get"})
    /\ Commit(r, Join([St(r) EXCEPT !.b.items = @ + 1], "error", "unopened"))

\* _relay_answer after request_speak_text
AnswerAfterSpeak(r, raised, written) ==
    /\ RunReady(r, {"ans_speak"})
    /\ Commit(r, Join([St(r) EXCEPT !.b.speak_raised = raised],
                      IF raised THEN "error" ELSE "none", written))

\* run(): await thinking_task returns
RunJoined(r, written) ==
    /\ RunReady(r, {"join"})
    /\ ThinkingFinished(orch[r])
    /\ Commit(r, Join(St(r), orch[r].unwinding, written))

\* the run's task is resumed with CancelledError
RunObservesCancel(r) ==
    /\ orch[r].cancelled
    /\ orch[r].pc \notin Terminal \cup {"idle", "created"}
    /\ orch[r].tpc # "created"
    /\ Commit(r, RunCancelled(St(r)))

\* a task cancelled before its first step never runs its coroutine: the
\* bridge's handle keeps naming it
RunNeverStarts(r) ==
    /\ orch[r].cancelled
    /\ orch[r].pc = "created"
    /\ orch' = [orch EXCEPT ![r].pc = "cancelled", ![r].cancelled = FALSE]
    /\ obs' = [obs EXCEPT ![r].cancel_seen = TRUE]
    /\ UNCHANGED <<unit_vars, disk, replay_only, use_trial_memory, main_vars, orchestrator_task,
                   thinking_mode, pending_confidence, created, robot_events>>

\* _replay_cached_trial after perform_thinking_behavior
ReplayAfterBehavior(r, d) ==
    /\ RunReady(r, {"replay_behavior"})
    /\ Commit(r, LET st == Tick(St(r), d)
                 IN  IF st.o.idx < Len(st.o.thinking_cues_emitted) - 1
                     THEN [st EXCEPT !.o.pc = "replay_pause"]
                     ELSE ReplayWindowEnd(st))

\* _replay_cached_trial after asyncio.sleep(THINKING_PAUSE_SECONDS)
ReplayAfterPause(r) ==
    /\ RunReady(r, {"replay_pause"})
    /\ Commit(r, ReplayFrom(Tick(St(r), THINKING_PAUSE_SECONDS), orch[r].idx + 1))

\* _replay_cached_trial after asyncio.sleep(min_duration - elapsed)
ReplayAfterFloor(r) ==
    /\ RunReady(r, {"replay_floor"})
    /\ Commit(r, ReplayAnswer([St(r) EXCEPT !.o.elapsed = Max(@, MinDuration),
                                            !.mode = FALSE]))

\* _replay_cached_trial after request_speak_text
ReplayAfterSpeak(r, raised) ==
    /\ RunReady(r, {"replay_speak"})
    /\ Commit(r, IF raised
                 THEN Finish([St(r) EXCEPT !.b.speak_raised = TRUE], "failed")
                 ELSE Finish([St(r) EXCEPT !.o.current_answer_text =
                                               orch[r].full_answer],
                             "done"))

\* the thinking task may take a step
ThinkingReady(r, tpcs) == orch[r].tpc \in tpcs /\ ~orch[r].tcancelled

\* _relay_thinking from its start to its first await
ThinkingBegins(r) ==
    /\ ThinkingReady(r, {"created"})
    /\ Commit(r, NotesFrom(St(r), 1))

\* _relay_thinking after emit_line, which took d
ThinkingAfterEmit(r, d) ==
    /\ ThinkingReady(r, {"emit"})
    /\ Commit(r, AfterEmit(Tick(St(r), d)))

\* _relay_thinking after asyncio.sleep(THINKING_PAUSE_SECONDS)
ThinkingAfterPause(r) ==
    /\ ThinkingReady(r, {"pause"})
    /\ Commit(r, AfterPause(Tick(St(r), THINKING_PAUSE_SECONDS)))

\* _relay_thinking: the thinking stream delivers a clause after d
ThinkingClauseArrives(r, meaningful, d) ==
    /\ ThinkingReady(r, {"get"})
    /\ Commit(r, StreamCue(Tick(St(r), d),
                           ThinkingClause(orch[r].delivered + 1, meaningful)))

\* _relay_thinking: the thinking stream ends after d
ThinkingStreamEnds(r, d) ==
    /\ ThinkingReady(r, {"get"})
    /\ Commit(r, ThinkingFinally([Tick(St(r), d) EXCEPT !.b.items = @ + 1],
                                 "normal"))

\* _relay_thinking: the thinking stream forwards an exception of its producer
ThinkingStreamFails(r, d) ==
    /\ ThinkingReady(r, {"get"})
    /\ Commit(r, ThinkingFinally([Tick(St(r), d) EXCEPT !.b.items = @ + 1],
                                 "error"))

\* _relay_thinking after the floor sleep of its finally block
ThinkingAfterFloor(r) ==
    /\ ThinkingReady(r, {"floor"})
    /\ Commit(r, ThinkingClose([St(r) EXCEPT !.o.elapsed = Max(@, MinDuration)]))

\* the thinking task is resumed with CancelledError, d after it began to
\* wait (a sleep is cancelled before its time is over)
ThinkingObservesCancel(r, d) ==
    /\ orch[r].tcancelled
    /\ orch[r].tpc \in {"emit", "pause", "get", "floor"}
    /\ orch[r].tpc = "pause" => d <= THINKING_PAUSE_SECONDS
    /\ orch[r].tpc = "floor" => d <= MinDuration - orch[r].elapsed
    /\ Commit(r, ThinkingCancelled(Tick(St(r), d)))

(***************************************************************************)
(* The next-state relation within a budget B.  runs: the runs the session   *)
(* sees.  starts, mains, shutdowns: after how many created runs run() may  *)
(* be called, run() and shutdown() may be resumed from an await, and       *)
(* shutdown() may be called on the bridge.  signals, hears: the positions  *)
(* of run() at which a signal may arrive and a question may be heard.      *)
(* answer_clauses, thinking_clauses: how many clauses a stream delivers.   *)
(* utterances, decisions, word_counts, delays: what the robot and the      *)
(* services may produce.                                                   *)
(***************************************************************************)
Step(B) ==
    \/ created \in B.starts /\ run
    \/ \E raised \in BOOLEAN : created \in B.mains /\ run_after_connect(raised)
    \/ \E raised \in BOOLEAN : created \in B.mains /\ run_after_attend_user(raised)
    \/ \E raised \in BOOLEAN : created \in B.mains /\ run_after_speak_text(raised)
    \/ \E raised \in BOOLEAN : created \in B.mains /\ run_after_listen_start(raised)
    \/ created \in B.mains /\ run_after_wait
    \/ created \in B.mains /\ run_after_disconnect
    \/ run_task \in B.signals /\ signal_handler
    \/ created \in B.shutdowns /\ shutdown
    \/ \E raised \in BOOLEAN : created \in B.mains /\ shutdown_after_listen_stop(raised)
    \/ created \in B.mains /\ shutdown_after_speak_stop
    \/ on_hear_start
    \/ \E text \in B.utterances :
           created + 1 \in B.runs /\ run_task \in B.hears /\ on_hear_end(text)
    \/ on_speak_start
    \/ on_speak_end
    \/ \E r \in Runs : RunReplay(r)
    \/ \E r \in Runs : RunDecideFails(r)
    \/ \E r \in Runs, decision \in B.decisions : RunDirect(r, decision)
    \/ \E r \in Runs, decision \in B.decisions : RunThinking(r, decision)
    \/ \E r \in Runs, raised \in BOOLEAN, written \in WriteOutcomes :
           DirectAfterSpeak(r, raised, written)
    \/ \E r \in Runs, word_count \in B.word_counts :
           orch[r].answered < B.answer_clauses /\ AnswerClauseArrives(r, word_count)
    \/ \E r \in Runs, word_count \in B.word_counts : AnswerBarrierPassed(r, word_count)
    \/ \E r \in Runs, written \in WriteOutcomes : AnswerStreamEnds(r, written)
    \/ \E r \in Runs : AnswerStreamFails(r)
    \/ \E r \in Runs, raised \in BOOLEAN, written \in WriteOutcomes :
           AnswerAfterSpeak(r, raised, written)
    \/ \E r \in Runs, written \in WriteOutcomes : RunJoined(r, written)
    \/ \E r \in Runs : RunObservesCancel(r)
    \/ \E r \in Runs : RunNeverStarts(r)
    \/ \E r \in Runs, d \in B.delays : ReplayAfterBehavior(r, d)
    \/ \E r \in Runs : ReplayAfterPause(r)
    \/ \E r \in Runs : ReplayAfterFloor(r)
    \/ \E r \in Runs, raised \in BOOLEAN : ReplayAfterSpeak(r, raised)
    \/ \E r \in Runs : ThinkingBegins(r)
    \/ \E r \in Runs, d \in B.delays : ThinkingAfterEmit(r, d)
    \/ \E r \in Runs : ThinkingAfterPause(r)
    \/ \E r \in Runs, meaningful \in BOOLEAN, d \in B.delays :
           orch[r].delivered < B.thinking_clauses
               /\ ThinkingClauseArrives(r, meaningful, d)
    \/ \E r \in Runs, d \in B.delays : ThinkingStreamEnds(r, d)
    \/ \E r \in Runs, d \in B.delays : ThinkingStreamFails(r, d)
    \/ \E r \in Runs : ThinkingAfterFloor(r)
    \/ \E r \in Runs, d \in B.delays : ThinkingObservesCancel(r, d)

\* the first run of a session, in every mode, with every decision, word
\* count and delay, run() and shutdown() interleaved with it in every way
OneRun ==
    [runs |-> {1}, starts |-> {0, 1}, mains |-> {0, 1}, signals |-> RunPositions,
     shutdowns |-> {0, 1}, hears |-> RunPositions, utterances |-> Utterances,
     answer_clauses |-> MaxAnswerClauses, thinking_clauses |-> MaxThinkingClauses,
     decisions |-> Decisions, word_counts |-> WordCounts, delays |-> Delays]

Init == Start(Modes) /\ UnitsIdle

Next == Step(OneRun)

Spec == Init /\ [][Next]_vars

\* the first run of a session whose main coroutine is scheduled before the
\* first question: run() is called and run() and shutdown() are resumed
\* before the robot hears anything, a signal arrives while run() connects,
\* a question is heard while run() has not been called or once it waits for
\* the stop event, and shutdown() may be called during the run as well
FirstRun ==
    [OneRun EXCEPT !.starts = {0}, !.mains = {0}, !.signals = {"connect"},
                   !.hears = {"none", "wait"}]

NextRun == Step(FirstRun)

SpecRun == Init /\ [][NextRun]_vars

\* a session of MaxRuns questions in the default mode, each stream delivering
\* at most one clause without delay; the bridge is shut down before the
\* first question or not at all
Session ==
    [runs |-> Runs, starts |-> {0}, mains |-> {0}, signals |-> {"connect"},
     shutdowns |-> {0}, hears |-> {"none", "wait"},
     utterances |-> {Utterances_q1, Utterances_why},
     answer_clauses |-> SessionClauses, thinking_clauses |-> SessionClauses,
     decisions |-> {D_direct, D_think}, word_counts |-> {0}, delays |-> {0}]

InitSession == Start({<<FALSE, TRUE>>}) /\ UnitsIdle

NextSession == Step(Session)

SpecSession == InitSession /\ [][NextSession]_vars

\* the steps of a run that is replaying a stored trial
ReplayProgress(r) ==
    \/ \E d \in Delays : ReplayAfterBehavior(r, d)
    \/ ReplayAfterPause(r)
    \/ ReplayAfterFloor(r)
    \/ \E raised \in BOOLEAN : ReplayAfterSpeak(r, raised)
    \/ orch[r].path = "replay" /\ RunObservesCancel(r)

\* the event loop resumes a task that is ready, and the sleeps and the
\* requests to the robot that a replay awaits return
SpecReplayFair == SpecRun /\ \A r \in Runs : WF_vars(ReplayProgress(r))

\* the steps of the thinking task of a run: its awaits return, and the
\* thinking stream delivers its clauses and then ends or fails
ThinkingProgress(r) ==
    \/ ThinkingBegins(r)
    \/ \E d \in Delays : ThinkingAfterEmit(r, d)
    \/ ThinkingAfterPause(r)
    \/ \E meaningful \in BOOLEAN, d \in Delays :
           orch[r].delivered < MaxThinkingClauses
               /\ ThinkingClauseArrives(r, meaningful, d)
    \/ \E d \in Delays : ThinkingStreamEnds(r, d)
    \/ \E d \in Delays : ThinkingStreamFails(r, d)
    \/ ThinkingAfterFloor(r)

\* the steps of _relay_answer and of run() after it: the answer stream
\* delivers its clauses and then ends or fails, and the awaits return
AnswerProgress(r) ==
    \/ \E word_count \in WordCounts :
           orch[r].answered < MaxAnswerClauses /\ AnswerClauseArrives(r, word_count)
    \/ \E word_count \in WordCounts : AnswerBarrierPassed(r, word_count)
    \/ \E written \in WriteOutcomes : AnswerStreamEnds(r, written)
    \/ AnswerStreamFails(r)
    \/ \E raised \in BOOLEAN, written \in WriteOutcomes :
           AnswerAfterSpeak(r, raised, written)
    \/ \E written \in WriteOutcomes : RunJoined(r, written)

\* the first run of a session in the default mode: the event loop resumes
\* a task that is ready, both streams come to an end, and the sleeps and
\* the requests to the robot return
SpecThinkingFair ==
    /\ InitSession
    /\ [][NextRun]_vars
    /\ \A r \in Runs : WF_vars(ThinkingProgress(r)) /\ WF_vars(AnswerProgress(r))

(***************************************************************************)
(* utils/streamer.py: one ChatGPTSentenceStreamer.stream() call.  The      *)
(* producer thread runs _generate_clauses over the fragments that          *)
(* _token_stream yields and hands every clause to the event loop          *)
(* (call_soon_threadsafe); the loop puts it on the queue later, in a step  *)
(* of its own; the consumer iterates the async generator.                  *)
(***************************************************************************)
\* the fragments _token_stream may yield (never empty: `if delta`)
Fragments ==
    { <<"H", "i">>, <<" ">>, <<".">>, <<"o", "k", "?", " ", "n">>, <<"!", " ">> }

RECURSIVE FragmentSeqs(_)
\* the sequences of at most n fragments
FragmentSeqs(n) ==
    IF n = 0 THEN {<<>>}
    ELSE LET shorter == FragmentSeqs(n - 1)
         IN  shorter \cup {Append(seq, f) : seq \in shorter, f \in Fragments}

\* what _token_stream does: it yields tokens and then returns, or raises
Feeds == [tokens : FragmentSeqs(MaxFragments), fails : BOOLEAN]

\* the exception of the producer, as an item of the queue
Raised == <<"Exception">>

\* what was handed over and is not yet received: the items on the queue,
\* then those the loop has yet to put on it
HandedOver == queue \o callbacks

\* char in ".?!"
Terminators == {".", "?", "!"}

RECURSIVE PopFrom(_, _, _, _)
\* the loop of _pop_ready_clauses from index idx, with start and the clauses
\* found so far: <<clauses, remainder>>
PopFrom(text, idx, start, clauses) ==
    IF idx > Len(text) THEN <<clauses, SubSeq(text, start, Len(text))>>
    ELSE IF text[idx] \in Terminators
         THEN LET clause == Strip(SubSeq(text, start, idx))
              IN  PopFrom(text, idx + 1, idx + 1,
                          IF clause # <<>> THEN Append(clauses, clause) ELSE clauses)
         ELSE PopFrom(text, idx + 1, start, clauses)

\* _pop_ready_clauses with the remainder trimmed
_pop_ready_clauses_trimmed(text) ==
    LET popped == PopFrom(text, 1, 1, <<>>) IN <<popped[1], Strip(popped[2])>>

\* ChatGPTSentenceStreamer._pop_ready_clauses
_pop_ready_clauses(text) == PopFrom(text, 1, 1, <<>>)

RECURSIVE ClausesFrom(_, _, _, _)
\* the loop of _generate_clauses from the i-th token, with the buffer and
\* the clauses yielded so far: <<clauses, buffer>> when the tokens are used up
ClausesFrom(tokens, i, buffer, clauses) ==
    IF i > Len(tokens) THEN <<clauses, buffer>>
    ELSE LET popped == _pop_ready_clauses(buffer \o tokens[i])
         IN  ClausesFrom(tokens, i + 1, popped[2], clauses \o popped[1])

\* ChatGPTSentenceStreamer._generate_clauses over a _token_stream that
\* returns after the tokens: everything it yields
_generate_clauses(tokens) ==
    LET looped == ClausesFrom(tokens, 1, <<>>, <<>>)
    IN  IF Strip(looped[2]) # <<>> THEN Append(looped[1], Strip(looped[2]))
        ELSE looped[1]

\* stream(): the queue is created and the producer thread started
stream(f) ==
    /\ producer.pc = "idle"
    /\ feed' = f
    /\ producer' = [IdleProducer EXCEPT !.pc = "tokens"]
    /\ callbacks' = <<>>
    /\ queue' = <<>>
    /\ consumer' = [IdleConsumer EXCEPT !.pc = "get"]
    /\ UNCHANGED <<bridge_vars, memory, lookup, heap>>

\* a word count that adds the words of each fragment to the count so far
word_count_accumulated(counted, remainder, token) == counted + WordCount(token)

\* _generate_clauses: self.word_count = len(buffer.split()), the buffer being
\* the remainder with the token appended
word_count_recomputed(counted, remainder, token) == WordCount(remainder \o token)

\* _generate_clauses: the body of the loop for the next token, up to the
\* first yield
ProducerToken ==
    /\ producer.pc = "tokens"
    /\ producer.ready = <<>>
    /\ producer.next <= Len(feed.tokens)
    /\ LET buffer == producer.buffer \o feed.tokens[producer.next]
           popped == _pop_ready_clauses(buffer)
       IN  producer' = [producer EXCEPT !.next = @ + 1,
                                        !.word_count = word_count_recomputed(
                                            @, producer.buffer,
                                            feed.tokens[producer.next]),
                                        !.ready = popped[1],
                                        !.buffer = popped[2]]
    /\ UNCHANGED <<feed, callbacks, queue, consumer, bridge_vars, memory, lookup, heap>>

\* a hand-off that puts the clause in front of what was handed over before
ProducerPutFront ==
    /\ producer.pc \in {"tokens", "finally"}
    /\ producer.ready # <<>>
    /\ callbacks' = <<Head(producer.ready)>> \o callbacks
    /\ producer' = [producer EXCEPT !.ready = Tail(@)]
    /\ UNCHANGED <<feed, queue, consumer, bridge_vars, memory, lookup, heap>>

\* producer(): one clause of _generate_clauses is handed to the loop:
\* loop.call_soon_threadsafe(queue.put_nowait, clause)
ProducerPut ==
    /\ producer.pc \in {"tokens", "finally"}
    /\ producer.ready # <<>>
    /\ callbacks' = Append(callbacks, Head(producer.ready))
    /\ producer' = [producer EXCEPT !.ready = Tail(@)]
    /\ UNCHANGED <<feed, queue, consumer, bridge_vars, memory, lookup, heap>>

\* the loop runs the callback that was handed to it first:
\* queue.put_nowait(item)
put_nowait ==
    /\ callbacks # <<>>
    /\ queue' = Append(queue, Head(callbacks))
    /\ callbacks' = Tail(callbacks)
    /\ UNCHANGED <<feed, producer, consumer, bridge_vars, memory, lookup, heap>>

\* _generate_clauses: _token_stream is exhausted; what is left of the
\* buffer is the last clause
ProducerFeedEnds ==
    /\ producer.pc = "tokens"
    /\ producer.ready = <<>>
    /\ producer.next > Len(feed.tokens)
    /\ ~feed.fails
    /\ producer' = [producer EXCEPT
                        !.pc = "finally",
                        !.ready = IF Strip(producer.buffer) # <<>>
                                  THEN <<Strip(producer.buffer)>> ELSE <<>>]
    /\ UNCHANGED <<feed, callbacks, queue, consumer, bridge_vars, memory, lookup, heap>>

\* producer() without its except clause
ProducerExceptMissing(handed) == handed

\* producer(): the except clause, the exception is handed to the loop
ProducerExcept(handed) == Append(handed, Raised)

\* producer(): _token_stream raises
ProducerFeedFails ==
    /\ producer.pc = "tokens"
    /\ producer.ready = <<>>
    /\ producer.next > Len(feed.tokens)
    /\ feed.fails
    /\ callbacks' = ProducerExcept(callbacks)
    /\ producer' = [producer EXCEPT !.pc = "finally"]
    /\ UNCHANGED <<feed, queue, consumer, bridge_vars, memory, lookup, heap>>

\* producer(): the finally clause, the end sentinel is handed to the loop
ProducerFinally ==
    /\ producer.pc = "finally"
    /\ producer.ready = <<>>
    /\ callbacks' = Append(callbacks, None)
    /\ producer' = [producer EXCEPT !.pc = "done"]
    /\ UNCHANGED <<feed, queue, consumer, bridge_vars, memory, lookup, heap>>

\* stream(): queue.get() returns an item: the sentinel ends the generator,
\* an exception is raised, a clause is yielded to the consumer
ConsumerGet ==
    /\ consumer.pc = "get"
    /\ queue # <<>>
    /\ queue' = Tail(queue)
    /\ consumer' =
           IF Head(queue) = None THEN [consumer EXCEPT !.pc = "ended"]
           ELSE IF Head(queue) = Raised THEN [consumer EXCEPT !.pc = "failed"]
           ELSE [consumer EXCEPT !.received = Append(@, Head(queue))]
    /\ UNCHANGED <<feed, producer, callbacks, bridge_vars, memory, lookup, heap>>

\* the bridge is at rest and stream() has not been called
InitStreamer == Start({<<FALSE, TRUE>>}) /\ UnitsIdle

NextStreamer ==
    \/ \E f \in Feeds : stream(f)
    \/ ProducerToken
    \/ ProducerPut
    \/ put_nowait
    \/ ProducerFeedEnds
    \/ ProducerFeedFails
    \/ ProducerFinally
    \/ ConsumerGet

SpecStreamer == InitStreamer /\ [][NextStreamer]_vars

\* ---------------------------------------------------------------------------
\* The answer stream with _relay_answer as its consumer: after the first
\* clause the consumer waits for thinking_window_done and then reads the
\* word_count that the producer thread writes
\* ---------------------------------------------------------------------------
\* a fragment of LowWordLimit words without a terminator
LongFragment == [i \in 1..(2 * LowWordLimit - 1) |-> IF i % 2 = 1 THEN "a" ELSE " "]
AnswerFragments == {<<"Y", "e", "s", ".", " ">>, LongFragment, <<".">>}

RECURSIVE AnswerFragmentSeqs(_)
\* the sequences of at most n answer fragments
AnswerFragmentSeqs(n) ==
    IF n = 0 THEN {<<>>}
    ELSE LET shorter == AnswerFragmentSeqs(n - 1)
         IN  shorter \cup {Append(seq, f) : seq \in shorter, f \in AnswerFragments}

\* the feeds of an answer: short fragments and at most one long one
AnswerFeeds ==
    [tokens : {seq \in AnswerFragmentSeqs(MaxFragments) :
                   Cardinality({i \in 1..Len(seq) : seq[i] = LongFragment}) <= 1},
     fails : BOOLEAN]

\* _relay_answer: the async for receives an item; the first clause takes the
\* consumer to thinking_window_done.wait()
AnswerGet ==
    /\ consumer.pc = "get"
    /\ queue # <<>>
    /\ queue' = Tail(queue)
    /\ consumer' =
           IF Head(queue) = None THEN [consumer EXCEPT !.pc = "ended"]
           ELSE IF Head(queue) = Raised THEN [consumer EXCEPT !.pc = "failed"]
           ELSE [consumer EXCEPT !.received = Append(@, Head(queue)),
                                 !.pc = IF consumer.received = <<>>
                                        THEN "barrier" ELSE "get"]
    /\ UNCHANGED <<feed, producer, callbacks, bridge_vars, memory, lookup, heap>>

\* _relay_answer: thinking_window_done.wait() returns and the confidence is
\* resolved, without a hint, from reasoning_model.word_count as the
\* producer thread has left it
AnswerResolves ==
    /\ consumer.pc = "barrier"
    /\ consumer' = [consumer EXCEPT
                        !.pc = "get",
                        !.resolved_confidence =
                            resolve_confidence(None, producer.word_count)]
    /\ UNCHANGED <<feed, producer, callbacks, queue, bridge_vars, memory, lookup, heap>>

NextRace ==
    \/ \E f \in AnswerFeeds : stream(f)
    \/ ProducerToken
    \/ ProducerPut
    \/ put_nowait
    \/ ProducerFeedEnds
    \/ ProducerFeedFails
    \/ ProducerFinally
    \/ AnswerGet
    \/ AnswerResolves

SpecRace == InitStreamer /\ [][NextRace]_vars


\* a decision with one thinking note fewer than MAX_THINKING_CUES and the
\* behavior plan of D_plan
D_many ==
    [EmptyDecision EXCEPT
        !.need_thinking = JTrue,
        !.thinking_behavior_plan = D_plan.thinking_behavior_plan,
        !.thinking_notes =
            [i \in 1..(MAX_THINKING_CUES - 1) |->
                <<"n", IF i % 2 = 1 THEN "a" ELSE "b">>]]

\* a decision whose only thinking note is punctuation
D_dots ==
    [EmptyDecision EXCEPT !.need_thinking = JTrue,
                          !.thinking_notes = << <<".", ".", ".">> >>]

\* one run whose decision may carry that many notes, or such a note, each
\* stream delivering without delay
ManyCues ==
    [runs |-> {1}, starts |-> {0}, mains |-> {0}, signals |-> {"connect"},
     shutdowns |-> {0, 1}, hears |-> {"none", "wait"},
     utterances |-> {Utterances_q1, Utterances_why},
     answer_clauses |-> SessionClauses, thinking_clauses |-> MaxThinkingClauses,
     decisions |-> {D_direct, D_think, D_many, D_dots}, word_counts |-> {0},
     delays |-> {0}]

NextCues == Step(ManyCues)

SpecCues == InitSession /\ [][NextCues]_vars

\* ---------------------------------------------------------------------------
\* TrialMemory taken on its own: one instance over one store file
\* ---------------------------------------------------------------------------

StoreEntry(question, answer) ==
    [question |-> question, answer |-> answer, thinking_cues |-> None,
     decision |-> EmptyDecision, final_confidence |-> None]

S_tea == StoreEntry(<<"t", "e", "a">>, <<"H", "o", "t", ".">>)
S_tea_again == StoreEntry(<<"t", "e", "a">>, <<"I", "c", "e", "d", ".">>)
S_Tea == StoreEntry(<<"T", "e", "a", "!">>, <<"M", "i", "l", "k", ".">>)
S_q2 == StoreEntry(<<"q", "2">>, <<"T", "w", "o", ".">>)
S_teatime == StoreEntry(<<"t", "e", "a", "t", "i", "m", "e">>, <<"F", "o", "u", "r", ".">>)
S_teacups == StoreEntry(<<"t", "e", "a", "c", "u", "p", "s">>, <<"S", "i", "x", ".">>)
S_teatimes == StoreEntry(<<"t", "e", "a", "t", "i", "m", "e", "s">>, <<"O", "f", "t", "e", "n", ".">>)

\* an entry of the older layout: the hints at its top level, null for its cues
S_legacy ==
    [question |-> <<"q", "3">>, answer |-> <<"S", "o", "o", "n", ".">>,
     thinking_cues |-> JNull, decision |-> JNull, final_confidence |-> None,
     need_thinking |-> JFalse, confidence |-> <<"l", "o", "w">>]

StoreEntries == {S_tea, S_tea_again, S_Tea, S_q2}

\* the files a TrialMemory may be constructed over
StoreDocuments ==
    { [kind |-> "missing", items |-> <<>>],
      [kind |-> "list", items |-> <<S_q2, S_tea>>],
      [kind |-> "list", items |-> <<S_tea, S_tea_again, S_teatime>>],
      [kind |-> "list", items |-> <<S_teatime, S_teacups>>],
      [kind |-> "list", items |-> <<S_teatimes>>],
      [kind |-> "dict",
       items |-> << <<T_trials, JNull>>,
                    <<T_records, [kind |-> "list", items |-> <<S_q2, S_legacy>>]>> >>] }

\* the questions asked of the store
StoreQueries ==
    { <<"q", "2">>,
      <<"-", "q", "2">>,
      <<"Q", "u", "e", "s", "t", "i", "o", "n", " ", "0", "2">>,
      <<"q", "1">>,
      <<"q", "0">>,
      <<"t", "e", "a">>,
      <<" ", "T", "E", "A", "?">>,
      <<"?">> }

\* TrialMemory(path): a new instance is constructed over the current file
StoreLoad ==
    /\ memory' = _load(disk)
    /\ heap' = HeapOf(_load(disk).records)
    /\ lookup' = NoLookup
    /\ UNCHANGED <<disk, replay_only, use_trial_memory, main_vars, orchestrator_task,
                   thinking_mode, pending_confidence, created, robot_events,
                   orch, obs, feed, producer, callbacks, queue,
                   consumer>>

\* TrialMemory.save_record(record); the write to the file may fail
StoreSave(record, written) ==
    /\ \/ Len(memory.records) < MaxRecords
       \/ DictGet(memory.records, record.question) # NoRecord
    /\ memory' = save_record(memory, record, disk, written)[1]
    /\ heap' = HeapOf(save_record(memory, record, disk, written)[1].records)
    /\ disk' = save_record(memory, record, disk, written)[2]
    /\ lookup' = NoLookup
    /\ UNCHANGED <<replay_only, use_trial_memory, main_vars, orchestrator_task,
                   thinking_mode, pending_confidence, created, robot_events,
                   orch, obs, feed, producer, callbacks, queue,
                   consumer>>

\* TrialMemory.get(question): the caller is handed the record object that
\* get returns, or None; afterwards the records of the instance are what
\* its record objects hold
StoreGet(question) ==
    LET found == get(memory, question)
        Handed(returned) ==
            /\ lookup' = [question |-> question,
                          record |-> json_dumps(returned[1], returned[2]),
                          ref |-> returned[2]]
            /\ heap' = [heap EXCEPT !.objects = returned[1]]
    IN  /\ IF found = NoRecord
           THEN /\ lookup' = [question |-> question, record |-> NoRecord, ref |-> 0]
                /\ heap' = [heap EXCEPT !.objects = StoreObjects(heap)]
           ELSE Handed(Returned(StoreObjects(heap),
                                RecordObject(heap, memory.records, found.question)))
        /\ memory' = [memory EXCEPT !.records = Contents(heap')]
        /\ UNCHANGED <<bridge_vars, feed, producer, callbacks, queue, consumer>>

InitStore ==
    /\ disk \in StoreDocuments
    /\ replay_only = FALSE /\ use_trial_memory = TRUE
    /\ shutting_down = FALSE /\ stop_event = "None"
    /\ run_task = "none" /\ shutdown_task = "none"
    /\ orchestrator_task = 0 /\ thinking_mode = FALSE
    /\ pending_confidence = None /\ created = 0 /\ robot_events = <<>>
    /\ orch = [r \in Runs |-> IdleRun] /\ obs = [r \in Runs |-> NoCalls]
    /\ feed = NoFeed /\ producer = IdleProducer
    /\ callbacks = <<>> /\ queue = <<>>
    /\ consumer = IdleConsumer
    /\ memory = _load(disk) /\ lookup = NoLookup
    /\ heap = HeapOf(_load(disk).records)

NextStore ==
    \/ StoreLoad
    \/ \E record \in StoreEntries, written \in WriteOutcomes : StoreSave(record, written)
    \/ \E question \in StoreQueries : StoreGet(question)

SpecStore == InitStore /\ [][NextStore]_vars

\* ---------------------------------------------------------------------------
\* A store file written by hand, loaded and read: entries without a
\* question, with a blank one, with null for a question, with a question of
\* punctuation only
\* ---------------------------------------------------------------------------
L_absent == StoreEntry(None, <<"A", ".">>)
L_blank == StoreEntry(<<" ">>, <<"B", ".">>)
L_null == StoreEntry(JNull, <<"N", ".">>)
L_mark == StoreEntry(<<"?">>, <<"M", ".">>)
LoadEntries == {S_tea, L_absent, L_blank, L_null, L_mark}

RECURSIVE EntrySeqs(_)
\* the lists of at most n entries
EntrySeqs(n) ==
    IF n = 0 THEN {<<>>}
    ELSE LET shorter == EntrySeqs(n - 1)
         IN  shorter \cup {Append(seq, e) : seq \in shorter, e \in LoadEntries}

LoadDocuments == {[kind |-> "list", items |-> items] : items \in EntrySeqs(MaxEntries)}

\* the questions asked of the loaded store
LoadQueries ==
    {<<"t", "e", "a">>, <<" ", "?">>, <<"N", "o", "n", "e">>, <<"A", ".">>}

InitLoad ==
    /\ disk \in LoadDocuments
    /\ replay_only = FALSE /\ use_trial_memory = TRUE
    /\ shutting_down = FALSE /\ stop_event = "None"
    /\ run_task = "none" /\ shutdown_task = "none"
    /\ orchestrator_task = 0 /\ thinking_mode = FALSE
    /\ pending_confidence = None /\ created = 0 /\ robot_events = <<>>
    /\ orch = [r \in Runs |-> IdleRun] /\ obs = [r \in Runs |-> NoCalls]
    /\ feed = NoFeed /\ producer = IdleProducer
    /\ callbacks = <<>> /\ queue = <<>>
    /\ consumer = IdleConsumer
    /\ memory = _load(disk) /\ lookup = NoLookup
    /\ heap = HeapOf(_load(disk).records)

\* what the caller of get does to the record it was handed:
\* record["answer"] = "X", record["thinking_cues"].append("X") and
\* record["decision"]["answer"] = "X"
Changes == {"answer", "thinking_cues", "decision"}

\* the objects after the caller has changed the record object at ref
Changed(objects, ref, change) ==
    CASE change = "answer" -> [objects EXCEPT ![ref].answer = <<"X">>]
      [] change = "thinking_cues" ->
            [objects EXCEPT ![objects[ref].thinking_cues] = Append(@, <<"X">>)]
      [] change = "decision" ->
            [objects EXCEPT ![objects[ref].decision].answer = <<"X">>]

\* the caller changes the record that get returned, once in each way;
\* afterwards the records of the instance are what its record objects hold
CallerMutates(change) ==
    /\ lookup.ref # 0
    /\ CASE change = "answer" -> lookup.record.answer # <<"X">>
         [] change = "thinking_cues" ->
               \A i \in 1..Len(lookup.record.thinking_cues) :
                   lookup.record.thinking_cues[i] # <<"X">>
         [] change = "decision" -> lookup.record.decision.answer # <<"X">>
    /\ heap' = [heap EXCEPT !.objects = Changed(heap.objects, lookup.ref, change)]
    /\ lookup' = [lookup EXCEPT !.record = json_dumps(heap'.objects, lookup.ref)]
    /\ memory' = [memory EXCEPT !.records = Contents(heap')]
    /\ UNCHANGED <<bridge_vars, feed, producer, callbacks, queue, consumer>>

NextLoad ==
    \/ StoreLoad
    \/ \E question \in LoadQueries : StoreGet(question)
    \/ \E change \in Changes : CallerMutates(change)

SpecLoad == InitLoad /\ [][NextLoad]_vars


(***************************************************************************)
(* Properties                                                              *)
(***************************************************************************)
\* the run was started on a cache miss and took the decision's path
Missed(r) == orch[r].path \in {"direct", "thinking"}
\* the run's coroutine has taken its first step and has not ended
Active(r) == orch[r].pc \notin Terminal \cup {"idle", "created"}

\* C1: every run on the direct or the thinking path that completes normally
\* has issued exactly one request_speak_text call.
SingleDispatch ==
    \A r \in Runs :
        (Missed(r) /\ orch[r].pc = "done") => Len(obs[r].speaks) = 1

\* C2: in a thinking-enabled run no step dispatches speech unless
\* thinking_window_done was set before that step.
BarrierOrdering ==
    [][\A r \in Runs :
           (orch'[r].path = "thinking" /\ Len(obs'[r].speaks) > Len(obs[r].speaks))
               => orch[r].thinking_window_done]_vars
\* a thinking-enabled run has spoken its answer although its thinking task failed
BarrierOrderingWitness ==
    \E r \in Runs :
        /\ orch[r].path = "thinking"
        /\ orch[r].tpc = "failed"
        /\ Len(obs[r].speaks) = 1

\* C3: once a run has observed its cancellation, no step adds a thinking
\* behavior, a speech request, a consumed stream item or a saved record to it.
CancellationStopsTaskTree ==
    [][\A r \in Runs :
           obs[r].cancel_seen =>
               /\ obs'[r].behaviors = obs[r].behaviors
               /\ obs'[r].speaks = obs[r].speaks
               /\ obs'[r].items = obs[r].items
               /\ obs'[r].saves = obs[r].saves]_vars

\* C4: a thinking-enabled run that was cancelled while thinking_window_done
\* was not yet set never requests speech and never reaches
\* _persist_trial_record.
CancelMidThinking ==
    \A r \in Runs :
        obs[r].cancel_open =>
            /\ obs[r].speaks = <<>>
            /\ obs[r].persist_calls = 0
            /\ obs[r].saves = 0
\* such a run has ended cancelled, after its thinking task dispatched a behavior
CancelMidThinkingWitness ==
    \E r \in Runs :
        /\ obs[r].cancel_open
        /\ orch[r].pc = "cancelled"
        /\ obs[r].behaviors # <<>>

\* C5: at most one run is active at any time.
AtMostOneActiveRun == Cardinality({r \in Runs : Active(r)}) <= 1

\* C6: a run that found a record for its question calls no decision service,
\* opens no stream and saves nothing; when it completes it has requested
\* speech exactly once, with the stored answer; and it always ends.
ReplaySafe(r) ==
    orch[r].path = "replay" =>
        /\ obs[r].decide_calls = 0
        /\ obs[r].streams = {}
        /\ obs[r].saves = 0
        /\ Len(obs[r].speaks) <= 1
        /\ orch[r].pc = "done" =>
               obs[r].speaks = <<Lookup(disk, orch[r].question).answer>>
ReplayOnHit ==
    /\ [](\A r \in Runs : ReplaySafe(r))
    /\ \A r \in Runs : (orch[r].path = "replay") ~> (orch[r].pc \in Terminal)
\* a replay with thinking has completed: two behaviors, then the stored answer
ReplayOnHitWitness ==
    \E r \in Runs :
        /\ orch[r].path = "replay"
        /\ orch[r].pc = "done"
        /\ Len(obs[r].behaviors) = 2
        /\ Len(obs[r].speaks) = 1

\* C7: when a run on a cache miss has completed normally, a later run of a
\* question with the same normalized text is a replay and calls no decision
\* service.
ReplayIdempotence ==
    \A r1 \in Runs, r2 \in Runs :
        (/\ r1 < r2
         /\ Missed(r1) /\ orch[r1].pc = "done"
         /\ _normalize_text(orch[r1].question) = _normalize_text(orch[r2].question)
         /\ orch[r2].pc \notin {"idle", "created"})
            => (orch[r2].path = "replay" /\ obs[r2].decide_calls = 0)

\* C8: a run on a cache miss, with the store in use, that completes normally
\* with a non-empty answer has saved one record, and a lookup of its question
\* in the store then hits.
PersistenceOnCompletion ==
    \A r \in Runs :
        (/\ Missed(r) /\ orch[r].pc = "done"
         /\ use_trial_memory
         /\ orch[r].current_answer_text # <<>>)
            => (/\ obs[r].saves = 1
                /\ Lookup(disk, orch[r].question) # NoRecord)

\* C9: a run whose decision call failed has failed without a speech request,
\* a thinking behavior, an opened stream or a persisted record.
DecisionFailureSilent ==
    \A r \in Runs :
        obs[r].decide_failed =>
            /\ orch[r].pc = "failed"
            /\ obs[r].speaks = <<>>
            /\ obs[r].behaviors = <<>>
            /\ obs[r].streams = {}
            /\ obs[r].persist_calls = 0
            /\ obs[r].saves = 0
\* a run has failed in its decision call
DecisionFailureSilentWitness ==
    \E r \in Runs : obs[r].decide_failed /\ obs[r].decide_calls = 1

\* C10: a run that completes normally has resolved its confidence exactly
\* once, to low, medium or high.
ConfidenceResolvedOnce ==
    \A r \in Runs :
        orch[r].pc = "done" =>
            /\ obs[r].resolves = 1
            /\ orch[r].resolved_confidence \in CONFIDENCE_BEHAVIORS

\* the run is suspended in furhat_client.request_speak_text
Speaking(r) == orch[r].pc \in {"direct_speak", "ans_speak", "replay_speak"}

\* C11: a run that awaits request_speak_text does not fail in its next step:
\* whatever the call raises is caught where it was made, and neither ends
\* the run as failed nor leaves _relay_answer with an exception.
ActuationFailureNonFatal ==
    [][\A r \in Runs :
           Speaking(r) => (orch'[r].pc # "failed" /\ orch'[r].unwinding # "error")]_vars

\* C12: once the thinking task has ended with the failure of its stream,
\* thinking_window_done is set and the answer is dispatched no more than
\* once; and the failure aborts the thinking task only: a run whose single
\* speak dispatch was made and returned, and that was not cancelled, ends
\* normally.
StreamFailureIsolation ==
    \A r \in Runs :
        orch[r].tpc = "failed" =>
            /\ orch[r].thinking_window_done
            /\ Len(obs[r].speaks) <= 1
            /\ (/\ orch[r].pc \in Terminal
                /\ Len(obs[r].speaks) = 1
                /\ ~obs[r].speak_raised
                /\ ~obs[r].cancel_seen) => orch[r].pc = "done"

\* C13: when _token_stream raises, the consumer never sees a normal end of
\* the stream; when the failure is raised to the consumer, it has received
\* exactly the clauses yielded before the failure, in order; and while the
\* consumer has yet to get it, the failure is on the queue or on its way to
\* it once the producer is done.
StreamErrorForwarding ==
    /\ feed.fails => consumer.pc # "ended"
    /\ consumer.pc = "failed" =>
           /\ feed.fails
           /\ consumer.received = ClausesFrom(feed.tokens, 1, <<>>, <<>>)[1]
    /\ (feed.fails /\ producer.pc = "done" /\ consumer.pc = "get") =>
           \E i \in 1..Len(HandedOver) : HandedOver[i] = Raised
\* the failure was raised to the consumer after two clauses
StreamErrorForwardingWitness ==
    /\ consumer.pc = "failed"
    /\ Len(consumer.received) = 2

\* the text between the cuts made after each '.', '?' and '!' of text, the
\* last piece being what follows the last cut
RECURSIVE Pieces(_)
Pieces(text) ==
    IF \A i \in 1..Len(text) : text[i] \notin Terminators THEN <<text>>
    ELSE LET cut == CHOOSE i \in 1..Len(text) :
                        /\ text[i] \in Terminators
                        /\ \A j \in 1..(i - 1) : text[j] \notin Terminators
         IN  <<SubSeq(text, 1, cut)>> \o Pieces(SubSeq(text, cut + 1, Len(text)))
\* the pieces trimmed, without the empty ones
Segments(text) ==
    LET pieces == Pieces(text)
        NonEmpty(piece) == piece # <<>>
    IN  SelectSeq([i \in 1..Len(pieces) |-> Strip(pieces[i])], NonEmpty)

\* C14: a stream that ended normally has delivered the clauses of the
\* concatenated fragments: the text cut after each '.', '?' and '!', the
\* pieces trimmed and the empty ones left out, the remainder last.
ClauseSegmentation ==
    consumer.pc = "ended" => consumer.received = Segments(Flatten(feed.tokens))
\* three fragments were delivered as three clauses, none of them a fragment
ClauseSegmentationWitness ==
    /\ consumer.pc = "ended"
    /\ Len(feed.tokens) = 3
    /\ Len(consumer.received) = 3
    /\ \A i \in 1..3 : \A j \in 1..3 : consumer.received[i] # feed.tokens[j]

\* the most items a stream() call of the model puts on its queue: the
\* clauses of a feed and the end sentinel
MostItems ==
    LET counts == {Len(_generate_clauses(f.tokens)) + 1 : f \in Feeds}
    IN  CHOOSE n \in counts : \A m \in counts : m <= n

\* C15: the queue has a capacity that holds the producer back: it never
\* holds all the items of the longest feed at once.
BoundedHandOff == Len(queue) < MostItems


\* what each stage of a lookup finds on its own in the store as it is
AliasStage ==
    LET alias_question == _resolve_index_alias(memory, Strip(lookup.question))
    IN  IF alias_question = None THEN NoRecord
        ELSE DictGet(memory.records, alias_question)
ExactStage ==
    LET original == NormIndexGet(memory._norm_index,
                                 _normalize_text(Strip(lookup.question)))
    IN  IF original = None THEN NoRecord ELSE DictGet(memory.records, original)
FuzzyStage ==
    LET matched_question ==
            _best_fuzzy_match(memory, _normalize_text(Strip(lookup.question)))
    IN  IF matched_question = None THEN NoRecord
        ELSE DictGet(memory.records, matched_question)

\* C16: TrialMemory.get answers with what the alias stage finds; with what
\* the exact normalized match finds only when the alias stage found nothing;
\* and with what the fuzzy match finds only when both found nothing.
LookupPriority ==
    lookup # NoLookup =>
        /\ AliasStage # NoRecord => lookup.record = AliasStage
        /\ (AliasStage = NoRecord /\ ExactStage # NoRecord) =>
               lookup.record = ExactStage
        /\ (AliasStage = NoRecord /\ ExactStage = NoRecord) =>
               lookup.record = FuzzyStage

\* a lookup where the alias and the exact match find different records
LookupPriorityWitness ==
    /\ lookup # NoLookup
    /\ AliasStage # NoRecord /\ ExactStage # NoRecord
    /\ AliasStage # ExactStage
    /\ lookup.record = AliasStage


\* the alias inputs among the questions asked, each with the index it names
AliasForms ==
    { << <<"q", "2">>, 2 >>,
      << <<"Q", "u", "e", "s", "t", "i", "o", "n", " ", "0", "2">>, 2 >>,
      << <<"q", "1">>, 1 >>,
      << <<"q", "0">>, 0 >> }

\* C17: after any loads and save_record calls, an alias input naming index n
\* returns the record of the n-th distinct stored question in insertion
\* order (1-based).
AliasLookup ==
    \A alias \in AliasForms :
        (lookup.question = alias[1] /\ alias[2] \in 1..Len(memory.records)) =>
            lookup.record = memory.records[alias[2]]

\* C18: an alias input whose index is 0 or greater than the number of stored
\* questions is a miss: get returns no record for it.
OutOfRangeAliasMisses ==
    \A alias \in AliasForms :
        (lookup.question = alias[1] /\ alias[2] \notin 1..Len(memory.records)) =>
            lookup.record = NoRecord


\* similarity of the normalized input of the lookup to the i-th stored key
Similarity(i) ==
    ratio(_normalize_text(Strip(lookup.question)), memory._norm_index[i][1])
AtThreshold(score) == score[1] * ThresholdDen >= ThresholdNum * score[2]
\* the stored keys no other stored key is more similar than
MostSimilar ==
    { i \in 1..Len(memory._norm_index) :
        \A j \in 1..Len(memory._norm_index) :
            ~FracGreater(Similarity(j), Similarity(i)) }

\* C19: when alias and exact lookup find nothing, get returns the record of
\* the stored key most similar to the normalized input if that similarity is
\* at least the threshold, the first such key in stored order on ties, and
\* misses otherwise.
FuzzyMatch ==
    (lookup # NoLookup /\ AliasStage = NoRecord /\ ExactStage = NoRecord) =>
        IF \E i \in MostSimilar : AtThreshold(Similarity(i))
        THEN LET first == CHOOSE i \in MostSimilar : \A j \in MostSimilar : i <= j
             IN  lookup.record =
                     DictGet(memory.records, memory._norm_index[first][2])
        ELSE lookup.record = NoRecord

\* a fuzzy lookup decided between two stored keys that tie at exactly the
\* threshold
FuzzyMatchWitness ==
    /\ lookup # NoLookup /\ AliasStage = NoRecord /\ ExactStage = NoRecord
    /\ MostSimilar = {1, 2}
    /\ Similarity(1)[1] * ThresholdDen = ThresholdNum * Similarity(1)[2]
    /\ lookup.record = DictGet(memory.records, memory._norm_index[1][2])
    /\ lookup.record # DictGet(memory.records, memory._norm_index[2][2])


\* C20: after any load and any save_record calls, neither the store nor the
\* document written from it holds two records whose questions have the same
\* normalized form.
OneRecordPerNormalizedKey ==
    /\ \A i, j \in 1..Len(memory.records) :
           _normalize_text(memory.records[i].question)
               = _normalize_text(memory.records[j].question) => i = j
    /\ \A i, j \in 1..Len(_write(memory).items) :
           _normalize_text(_write(memory).items[i].question)
               = _normalize_text(_write(memory).items[j].question) => i = j


\* the records whose question is not an alias input
PlainEntries == { record \in StoreEntries : AliasIndex(Lower(record.question)) < 0 }

\* C21: after a save_record call, a lookup of the saved question returns the
\* content just saved: the record most recently saved under the normalized
\* key of the question is the one a non-alias lookup finds.
LastWriteWins ==
    [][\A record \in PlainEntries :
           (\E written \in WriteOutcomes : StoreSave(record, written)) =>
               get(memory', record.question) = _normalize_record(record)]_vars


\* C22: two input questions with the same normalized form get the same
\* result from TrialMemory.get in the same store: whatever a lookup
\* returned, every question normalizing like the one asked returns it too.
NormalizationEquivalence ==
    lookup # NoLookup =>
        \A question \in StoreQueries :
            _normalize_text(question) = _normalize_text(lookup.question) =>
                get(memory, question) = lookup.record


\* C23: when the write of the store document fails during save_record, the
\* record stays in memory and a get of the saved question that follows
\* returns the saved record.
WriteFailureKeepsMemory ==
    [][\A record \in PlainEntries :
           (\E written \in WriteOutcomes \ {"written"} : StoreSave(record, written)) =>
               /\ DictGet(memory'.records, Strip(record.question))
                      = _normalize_record(record)
               /\ get(memory', record.question) = _normalize_record(record)]_vars


\* a hint that names a tier, whatever its case and surrounding whitespace
ValidHint(hint) ==
    hint # None /\ Lower(Strip(hint)) \in {T_low, T_medium, T_high}
\* the tier the thresholds give for a hint and a word count
TierFor(hint, w) ==
    IF ValidHint(hint) THEN Lower(Strip(hint))
    ELSE IF w < 25 THEN T_low
    ELSE IF w < 60 THEN T_medium
    ELSE T_high

\* C24: whenever a run resolves its confidence from the word count w of the
\* answer stream, the tier is the valid hint of the decision if there is
\* one, and otherwise low for w < 25, medium for 25 <= w < 60 and high for
\* w >= 60.
ConfidenceThresholds ==
    [][\A r \in Runs, w \in WordCounts :
           (/\ AnswerClauseArrives(r, w) \/ AnswerBarrierPassed(r, w)
            /\ obs'[r].resolves = obs[r].resolves + 1) =>
               orch'[r].resolved_confidence
                   = TierFor(orch[r].decision.confidence, w)]_vars

\* a run without a hint that resolved the middle tier from the word count
ConfidenceThresholdsWitness ==
    \E r \in Runs :
        /\ obs[r].resolves = 1
        /\ orch[r].decision.confidence = None
        /\ orch[r].resolved_confidence = T_medium


\* the thinking task of r leaves its loops on this step, after an await
\* that took d
ThinkingLoopsLeft(r, d) ==
    \/ \E meaningful \in BOOLEAN : ThinkingClauseArrives(r, meaningful, d)
    \/ ThinkingStreamEnds(r, d)
    \/ ThinkingStreamFails(r, d)
    \/ ThinkingAfterEmit(r, d)

\* C25: the thinking-closed signal is set no later than MAX_DURATION after
\* the thinking task started, however late the thinking stream delivers.
ThinkingWindowUpperBound ==
    [][\A r \in Runs, d \in Delays :
           (/\ ~orch[r].thinking_window_done
            /\ orch'[r].thinking_window_done
            /\ ThinkingLoopsLeft(r, d)) =>
               orch[r].elapsed + d <= THINKING_DURATION_SECONDS]_vars


\* C26: in a thinking-enabled run that is not cancelled, the thinking-closed
\* signal is set either by the step that ends the floor sleep of the finally
\* block, or by a step that leaves the loops when min(MIN_DURATION,
\* MAX_DURATION) has elapsed since the thinking task started; this holds
\* however fast the cues came and also when the thinking stream failed.
ThinkingWindowFloor ==
    [][\A r \in Runs :
           (/\ orch[r].path = "thinking"
            /\ ~orch[r].tcancelled
            /\ ~orch[r].thinking_window_done
            /\ orch'[r].thinking_window_done) =>
               \/ orch[r].tpc = "floor" /\ ThinkingAfterFloor(r)
               \/ /\ \E d \in Delays : ThinkingLoopsLeft(r, d)
                  /\ \A d \in Delays :
                         ThinkingLoopsLeft(r, d) =>
                             orch[r].elapsed + d >= MinDuration]_vars

\* the thinking stream failed at once and the thinking task sleeps out the
\* floor with the window still open
ThinkingWindowFloorWitness ==
    \E r \in Runs :
        /\ orch[r].path = "thinking" /\ orch[r].tpc = "floor"
        /\ orch[r].texit = "error" /\ orch[r].elapsed = 0
        /\ ~orch[r].thinking_window_done


\* the non-empty thinking notes of a decision, stripped, in their order
GivenNotes(decision) ==
    IF decision.thinking_notes = None THEN <<>>
    ELSE LET kept == SelectSeq(decision.thinking_notes,
                               LAMBDA note : Strip(note) # <<>>)
         IN  [i \in 1..Len(kept) |-> Strip(kept[i])]

RECURSIVE InStreamOrder(_, _)
\* cues are clauses of the thinking stream, taken in the order of the
\* stream from its k-th clause on
InStreamOrder(cues, k) ==
    IF cues = <<>> THEN TRUE
    ELSE IF k > MaxThinkingClauses + 1 THEN FALSE
    ELSE IF Head(cues) = ThinkingClause(k, TRUE)
         THEN InStreamOrder(Tail(cues), k + 1)
         ELSE InStreamOrder(cues, k + 1)

\* C27: in a thinking-enabled run the emitted cues are a prefix of the
\* decision's non-empty thinking notes in their order, followed by accepted
\* cues of the thinking stream in stream order; a streamed cue is emitted
\* only after every note, and never more than MAX_THINKING_CUES cues are
\* emitted.
ThinkingCueOrder ==
    \A r \in Runs :
        orch[r].path = "thinking" =>
            LET notes == GivenNotes(orch[r].decision)
                cues == orch[r].thinking_cues_emitted
                n == Min(Len(cues), Len(notes))
            IN  /\ Len(cues) <= MAX_THINKING_CUES
                /\ SubSeq(cues, 1, n) = SubSeq(notes, 1, n)
                /\ InStreamOrder(SubSeq(cues, n + 1, Len(cues)), 1)

\* MAX_THINKING_CUES cues were emitted, the notes first and a streamed cue
\* last, and the thinking stream had delivered a further clause
ThinkingCueOrderWitness ==
    \E r \in Runs :
        /\ orch[r].path = "thinking"
        /\ Len(orch[r].thinking_cues_emitted) = MAX_THINKING_CUES
        /\ Len(GivenNotes(orch[r].decision)) = MAX_THINKING_CUES - 1
        /\ orch[r].thinking_cues_emitted[MAX_THINKING_CUES] = ThinkingClause(1, TRUE)
        /\ orch[r].thinking_window_done


\* C28: in a thinking phase every accepted cue triggers exactly one
\* perform_thinking_behavior call: the k-th cue (counted from 0 across notes
\* and streamed cues) the call with sequence index k and, when the behavior
\* plan is not empty, with the plan entry at position k modulo the length of
\* the plan.
OneBehaviorPerCue ==
    \A r \in Runs :
        orch[r].path = "thinking" =>
            LET plan == normalize_behavior_plan(orch[r].decision.thinking_behavior_plan)
                calls == obs[r].behaviors
            IN  /\ Len(calls) = Len(orch[r].thinking_cues_emitted)
                /\ \A k \in 0..(Len(calls) - 1) :
                       /\ calls[k + 1].index = k
                       /\ plan # <<>> =>
                              /\ calls[k + 1].source = "plan"
                              /\ calls[k + 1].step = plan[(k % Len(plan)) + 1]
                       /\ plan = <<>> => calls[k + 1].source = "cycle"

\* more cues than plan entries: the fourth cue was given the first entry of
\* a plan of three again, after the entry that only sets the LED
OneBehaviorPerCueWitness ==
    \E r \in Runs :
        /\ orch[r].path = "thinking"
        /\ Len(normalize_behavior_plan(orch[r].decision.thinking_behavior_plan)) = 3
        /\ Len(obs[r].behaviors) >= 4
        /\ ~Suspends(obs[r].behaviors[3])
        /\ obs[r].behaviors[4].step = obs[r].behaviors[1].step
        /\ obs[r].behaviors[4].step # obs[r].behaviors[2].step
        /\ obs[r].behaviors[4].step # obs[r].behaviors[3].step


\* C29: every thinking cue that is emitted and triggers a behavior dispatch,
\* from the thinking notes or from the thinking stream, is non-empty after
\* whitespace and terminal punctuation are stripped.
AcceptedCuesMeaningful ==
    \A r \in Runs :
        orch[r].path = "thinking" =>
            \A k \in 1..Len(orch[r].thinking_cues_emitted) :
                StripChars(Strip(orch[r].thinking_cues_emitted[k]),
                           {".", "!", "?"}) # <<>>


\* C30: a run calls the decision service at most once, only after a cache
\* miss and before a generation stream or the thinking task is started, and
\* it takes one path only: a replaying run never calls it, a direct run
\* starts no stream and no thinking task, and a thinking run never speaks
\* the direct answer.
DecisionCallPlacement ==
    /\ [](\A r \in Runs :
              /\ obs[r].decide_calls <= 1
              /\ obs[r].decide_calls = 0 =>
                     obs[r].streams = {} /\ orch[r].tpc = "none"
              /\ orch[r].path = "replay" => obs[r].decide_calls = 0
              /\ orch[r].path = "direct" =>
                     obs[r].streams = {} /\ orch[r].tpc = "none"
              /\ orch[r].path = "thinking" => orch[r].pc # "direct_speak")
    /\ [][\A r \in Runs :
              /\ obs'[r].decide_calls > obs[r].decide_calls =>
                     /\ Cached(r) = NoRecord
                     /\ orch[r].path = "none"
                     /\ obs[r].streams = {} /\ orch[r].tpc = "none"
              /\ orch[r].path # "none" =>
                     orch'[r].path \in {orch[r].path, "none"}]_vars

\* a thinking run that asked the decision service once and started both
\* streams has completed
DecisionCallPlacementWitness ==
    \E r \in Runs :
        /\ orch[r].path = "thinking" /\ orch[r].pc = "done"
        /\ obs[r].decide_calls = 1
        /\ obs[r].streams = {"thinking", "answer"}


\* the answer a direct response speaks: the decision's answer, or the fixed
\* fallback sentence when the answer is missing or blank
AnswerOrFallback(decision) ==
    IF ~Truthy(Get(decision, "answer")) \/ Strip(decision.answer) = <<>>
    THEN FallbackAnswer
    ELSE Strip(decision.answer)

\* C31: on the direct path the resolved confidence is the decision's hint
\* when the hint names one of the three tiers, as the thinking path accepts
\* it, and medium otherwise, and the single speak call carries the
\* decision's answer or the fallback sentence.
DirectPathResolution ==
    \A r \in Runs :
        (orch[r].path = "direct" /\ orch[r].pc \in {"direct_speak", "done"}) =>
            /\ orch[r].resolved_confidence
                   = IF ValidHint(orch[r].decision.confidence)
                     THEN Lower(Strip(orch[r].decision.confidence))
                     ELSE T_medium
            /\ Len(obs[r].speaks) = 1
            /\ LET said == AnswerOrFallback(orch[r].decision)
               IN  /\ Len(obs[r].speaks[1]) >= Len(said)
                   /\ SubSeq(obs[r].speaks[1], 1, Len(said)) = said


\* the buffer of _generate_clauses before the k-th token of the feed is
\* appended: what the clauses removed so far have left
RemainderBefore(k) == ClausesFrom(SubSeq(feed.tokens, 1, k - 1), 1, <<>>, <<>>)[2]

\* C32: once a fragment has been processed, word_count is the number of
\* whitespace-separated tokens of the unemitted remainder with that
\* fragment appended, counted before the ready clauses are removed; it is
\* not a sum over the fragments.
WordCountDefinition ==
    (producer.pc # "idle" /\ producer.next > 1) =>
        LET k == producer.next - 1
        IN  producer.word_count = WordCount(RemainderBefore(k) \o feed.tokens[k])
\* three fragments holding three words were processed and the count is one
WordCountDefinitionWitness ==
    /\ producer.next = 4
    /\ WordCount(Flatten(feed.tokens)) = 3
    /\ producer.word_count = 1


\* C33: once the feed has ended, word_count is the number of
\* whitespace-separated words of the whole generated text, however the text
\* was split into fragments.
CumulativeWordCount ==
    (producer.pc \in {"finally", "done"} /\ ~feed.fails) =>
        producer.word_count = WordCount(Flatten(feed.tokens))


\* the clauses _generate_clauses has yielded or is about to yield, in
\* production order, at the point the producer has reached
Generated ==
    LET looped == ClausesFrom(SubSeq(feed.tokens, 1, producer.next - 1),
                              1, <<>>, <<>>)
    IN  IF producer.pc \in {"finally", "done"} /\ ~feed.fails
        THEN _generate_clauses(feed.tokens)
        ELSE looped[1]
\* the clauses waiting on the queue or on their way to it
Waiting == SelectSeq(HandedOver, LAMBDA item : item # None /\ item # Raised)

\* C34: in every interleaving of the producer thread, the loop and the
\* consumer, what the consumer has received, followed by what waits on the
\* queue or on its way to it and what the producer is handing over, is what
\* the producer generated, in
\* production order; the end sentinel is enqueued once, last, on every exit
\* path of the producer; and the stream ends exactly when the sentinel is
\* dequeued, all clauses having been received.
OrderedHandOff ==
    /\ [](producer.pc # "idle" =>
           /\ consumer.pc # "failed" =>
                  consumer.received \o Waiting \o producer.ready = Generated
           /\ \A i \in 1..Len(HandedOver) :
                  HandedOver[i] = None => (i = Len(HandedOver) /\ producer.pc = "done")
           /\ (producer.pc = "done" /\ consumer.pc # "ended") =>
                  (HandedOver # <<>> /\ HandedOver[Len(HandedOver)] = None)
           /\ consumer.pc = "ended" =>
                  /\ producer.pc = "done" /\ HandedOver = <<>> /\ ~feed.fails
                  /\ consumer.received = _generate_clauses(feed.tokens))
    /\ [][(consumer.pc = "get" /\ consumer'.pc = "ended")
              <=> (ConsumerGet /\ Head(queue) = None)]_vars
\* the stream ended after four clauses, the consumer having started to
\* receive while the producer still ran
OrderedHandOffWitness ==
    /\ consumer.pc = "ended"
    /\ Len(consumer.received) = 4
\* the consumer has received a clause while two more wait and the producer
\* is not done
OrderedHandOffInterleaved ==
    /\ consumer.pc = "get"
    /\ consumer.received # <<>>
    /\ Len(Waiting) >= 2
    /\ producer.pc = "tokens"


\* the entry has a question that is not blank
WellFormed(entry) ==
    entry.question # None /\ entry.question # JNull /\ Strip(entry.question) # <<>>

\* C35: of a loaded store document, every entry without a non-blank question
\* is dropped, so that the records are those of the well-formed entries,
\* and every well-formed entry is retained and found by a lookup of its
\* question.
MalformedDropped ==
    LET good == {i \in 1..Len(disk.items) : WellFormed(disk.items[i])}
    IN  /\ \A k \in 1..Len(memory.records) :
               \E i \in good :
                   memory.records[k].question = Strip(disk.items[i].question)
        /\ \A i \in good :
               LET question == Strip(disk.items[i].question)
               IN  /\ DictGet(memory.records, question) # NoRecord
                   /\ get(memory, question).question = question


\* C36: whenever a thinking-enabled run has terminated, by completing,
\* failing or being cancelled, however often cancellation was requested,
\* the thinking-mode flag of the BehaviorGenerator is false and the run's
\* thinking_window_done is set.
ThinkingModeReleased ==
    \A r \in Runs :
        (orch[r].path = "thinking" /\ orch[r].pc \in Terminal) =>
            ~thinking_mode /\ orch[r].thinking_window_done


RECURSIVE FirstYield(_, _, _)
\* the word_count at the moment _generate_clauses yields its first clause:
\* the count set for the first token that completes a clause, or the count
\* left by the last token when only the remainder is yielded
FirstYield(tokens, i, buffer) ==
    IF i > Len(tokens) THEN WordCount(buffer)
    ELSE LET popped == _pop_ready_clauses(buffer \o tokens[i])
         IN  IF popped[1] # <<>> \/ i = Len(tokens)
             THEN WordCount(buffer \o tokens[i])
             ELSE FirstYield(tokens, i + 1, popped[2])

\* C37: for a given answer feed and no valid hint, the tier the answer task
\* resolves is the same in every interleaving of the producer thread with
\* the consumer: it is the tier of the word count the first clause was
\* yielded with, however far the producer has advanced since.
ConfidenceInterleavingFree ==
    consumer.resolved_confidence # None =>
        consumer.resolved_confidence
            = _estimate_confidence_from_words(FirstYield(feed.tokens, 1, <<>>))


\* cancellation of the run has been requested
CancelRequested(r) ==
    orch[r].cancelled \/ orch[r].tcancelled \/ obs[r].cancel_seen

\* C38: a thinking-enabled run whose streams deliver finitely many items and
\* then end or fail, and that is not cancelled, terminates: the answer
\* task's wait for thinking_window_done is always released.
RunTermination ==
    \A r \in Runs :
        (orch[r].path = "thinking")
            ~> (orch[r].pc \in Terminal \/ CancelRequested(r))
\* a thinking-enabled run that was never cancelled has completed after its
\* answer task had two clauses and spoke
RunTerminationWitness ==
    \E r \in Runs :
        /\ orch[r].path = "thinking"
        /\ orch[r].pc = "done"
        /\ ~CancelRequested(r)
        /\ orch[r].thinking_window_done
        /\ Len(obs[r].speaks) = 1


\* C39: after a save_record call whose write succeeded, a new TrialMemory
\* loaded from the written document answers every lookup as the instance
\* that wrote it.
ReloadEquivalence ==
    [][\A record \in StoreEntries :
           StoreSave(record, "written") =>
               \A question \in StoreQueries :
                   get(_load(disk'), question) = get(memory', question)]_vars


\* C40: TrialMemory.get, hit or miss, leaves the records, the normalized
\* index and the ordered question list as they were, whatever objects it
\* makes; and the record it returns is a copy: when the caller changes it,
\* its list of cues or its decision, the instance holds what it held and
\* every later get returns what it returned before.
LookupReadOnly ==
    /\ [][\A question \in LoadQueries :
              StoreGet(question) =>
                  /\ memory' = memory
                  /\ Contents(heap') = Contents(heap)]_vars
    /\ [][\A change \in Changes :
              CallerMutates(change) =>
                  /\ Contents(heap') = Contents(heap)
                  /\ \A question \in LoadQueries :
                         get(memory', question) = get(memory, question)]_vars
\* the caller has changed the record a get returned, its list of cues and
\* its decision, and the store still answers the same question with the
\* record as it was loaded
LookupReadOnlyWitness ==
    /\ lookup.ref # 0
    /\ lookup.record.answer = <<"X">>
    /\ lookup.record.decision.answer = <<"X">>
    /\ \E i \in 1..Len(lookup.record.thinking_cues) :
           lookup.record.thinking_cues[i] = <<"X">>
    /\ get(memory, lookup.question) # lookup.record
    /\ get(memory, lookup.question) = get(_load(disk), lookup.question)

====
